---- MODULE Spec2Model ----
(***************************************************************************)
(* Model of the stocksTUI market-data cache and fetch gate                 *)
(* (stockstui/data_providers/market_provider.py) and of its persistent     *)
(* SQLite cache (stockstui/database/db_manager.py).                        *)
(*                                                                         *)
(* Python values: a dict is a function whose DOMAIN is its key set, None   *)
(* is the token "None", prices are opaque tokens (the provider never       *)
(* computes on them).  Instants are whole seconds.                         *)
(***************************************************************************)
EXTENDS Integers, Sequences, FiniteSets, TLC

VARIABLES
    clock,        \* datetime.now(timezone.utc), in seconds
    ticks,        \* number of time steps taken so far
    mcal,         \* TRUE iff `import pandas_market_calendars` succeeded
    calendar,     \* state of each exchange calendar known to the calendar library
    price_cache,  \* _price_cache: symbol -> (timestamp, price record)
    info_cache,   \* _info_cache:  symbol -> static info dict
    news_cache,   \* _news_cache: upper-cased ticker -> (timestamp, article list)
    news,         \* the last get_news_data call and what it did
    call,         \* the get_market_price_data call in progress or last returned
    prev,         \* summary of the call that returned before `call`
    calls,        \* number of get_market_price_data calls started
    db,           \* rows of table price_cache in the database file: ticker -> row
    conn,         \* DbManager.conn: "none", "open" or "closed"
    in_transaction, \* conn.in_transaction: a transaction is open on the connection
    opened,       \* what the last DbManager.__init__ saw: rows before, instant
    op,           \* the last load / save / close on the DbManager and its outcome
    lookup,       \* the last get_ticker_info call and its outcome
    workers,      \* the fetch_prices workers started so far, in start order
    app,          \* the application: life cycle, tabs, price table, message queue
    query,        \* the last is_cached / get_cached_price pair of calls
    config        \* the configuration files and the last _load_or_create call

vars == <<clock, ticks, mcal, calendar, price_cache, info_cache, news_cache, news,
          call, prev,
          calls, db, conn, in_transaction, opened, op, lookup, workers, app,
          query, config>>

providerVars == <<mcal, calendar, price_cache, info_cache, news_cache, news, call, prev,
                  calls, lookup>>
dbVars == <<db, conn, in_transaction, opened, op>>
appVars == <<workers, app, query, config>>

----------------------------------------------------------------------------
(* Bounds of the model *)

MaxTicks == 1
MaxCalls == 2
MaxInput == 3
MaxNormCalls == 1

(* Program constants *)

CACHE_OPEN_MARKET_SECONDS == 300
CACHE_CLOSED_MARKET_SECONDS == 86400
CACHE_LOAD_DURATION_SECONDS == 86400
CACHE_PRUNE_EXPIRY_SECONDS == 604800

----------------------------------------------------------------------------
(* Python values *)

None == "None"

EmptyDict == [k \in {} |-> None]

\* d.get(k) and d.get(k, default)
Get(d, k) == IF k \in DOMAIN d THEN d[k] ELSE None
GetDefault(d, k, default) == IF k \in DOMAIN d THEN d[k] ELSE default

\* truth value of a str-or-None and of a dict
Truthy(v) == v \notin {None, ""}
DictTruthy(d) == DOMAIN d # {}

\* str.upper() on the ticker spellings of the model
Upper(t) ==
    CASE t \in {"aa", "AA"} -> "AA"
      [] t \in {"ms", "MS"} -> "MS"
      [] OTHER -> t

RawTickers == {"", "aa", "AA", "MS"}
Symbols == {Upper(t) : t \in RawTickers \ {""}}

RECURSIVE SeqsUpTo(_, _)
SeqsUpTo(S, n) ==
    IF n = 0 THEN {<<>>}
    ELSE LET shorter == SeqsUpTo(S, n - 1)
         IN shorter \cup {Append(q, x) : q \in {r \in shorter : Len(r) = n - 1}, x \in S}

Range(q) == {q[i] : i \in 1..Len(q)}

----------------------------------------------------------------------------
(* The remote provider (yfinance): what Ticker(symbol).info can do *)

FullInfo(p) ==
    [currency |-> "USD", exchange |-> "NYSE", shortName |-> "Short",
     longName |-> "Long Name", currentPrice |-> p, previousClose |-> "pc",
     dayLow |-> "lo", dayHigh |-> "hi", fiftyTwoWeekLow |-> "lo52",
     fiftyTwoWeekHigh |-> "hi52"]

\* a quote without names, exchange or currentPrice
SparseInfo == [currency |-> "USD", regularMarketPrice |-> "p3"]

\* what the provider answers for a symbol that does not resolve
NoCurrencyInfo == [trailingPegRatio |-> None]

RemoteInfos == {FullInfo("p1"), SparseInfo, NoCurrencyInfo}

\* one outcome of reading .info: it raises, or it yields a dict
RemoteOutcomes ==
    {[raises |-> TRUE, info |-> EmptyDict]}
        \cup {[raises |-> FALSE, info |-> d] : d \in RemoteInfos}

----------------------------------------------------------------------------
(* Market-status oracle *)

Calendars == {"NYSE"}
CalendarStates == {"open", "closed", "holiday", "error"}

get_market_status(calendar_name) ==
    LET name == IF calendar_name = "GDAX" THEN "CME_Crypto" ELSE calendar_name
        session == IF name \in DOMAIN calendar THEN calendar[name] ELSE "error"
    IN  IF ~mcal THEN [status |-> "closed", is_open |-> FALSE]
        ELSE CASE session = "error" ->
                    [status |-> "unknown", is_open |-> TRUE, calendar |-> name]
               [] session = "holiday" ->
                    [status |-> "closed", is_open |-> FALSE, calendar |-> name]
               [] OTHER ->
                    [status |-> session, is_open |-> (session = "open"),
                     calendar |-> name]

----------------------------------------------------------------------------
(* get_market_price_data: normalisation and gate *)

\* Variant: duplicates are not removed.
RECURSIVE NormalizeFrom_NoDedup(_, _, _, _)
NormalizeFrom_NoDedup(tickers, i, seen, acc) ==
    IF i > Len(tickers) THEN acc
    ELSE IF tickers[i] # ""
         THEN NormalizeFrom_NoDedup(tickers, i + 1, seen, Append(acc, Upper(tickers[i])))
         ELSE NormalizeFrom_NoDedup(tickers, i + 1, seen, acc)

\* Variant: empty entries are not dropped.
RECURSIVE NormalizeFrom_KeepEmpty(_, _, _, _)
NormalizeFrom_KeepEmpty(tickers, i, seen, acc) ==
    IF i > Len(tickers) THEN acc
    ELSE LET t == tickers[i]
         IN IF Upper(t) \notin seen
            THEN NormalizeFrom_KeepEmpty(tickers, i + 1, seen \cup {Upper(t)},
                                         Append(acc, Upper(t)))
            ELSE NormalizeFrom_KeepEmpty(tickers, i + 1, seen, acc)

RECURSIVE NormalizeFrom(_, _, _, _)
NormalizeFrom(tickers, i, seen, acc) ==
    IF i > Len(tickers) THEN acc
    ELSE LET t == tickers[i]
         IN IF t # "" /\ Upper(t) \notin seen
            THEN NormalizeFrom(tickers, i + 1, seen \cup {Upper(t)}, Append(acc, Upper(t)))
            ELSE NormalizeFrom(tickers, i + 1, seen, acc)

valid_tickers(tickers) == NormalizeFrom(tickers, 1, {}, <<>>)

\* `info and info.get("exchange")` for info = _info_cache.get(ticker)
HasExchange(ticker) ==
    /\ ticker \in DOMAIN info_cache
    /\ DictTruthy(info_cache[ticker])
    /\ Truthy(Get(info_cache[ticker], "exchange"))

\* Variant: an unknown exchange is looked up under the oracle's default calendar.
GateIsOpen_DefaultCalendar(ticker) ==
    IF HasExchange(ticker)
    THEN get_market_status(info_cache[ticker]["exchange"]).is_open
    ELSE get_market_status("NYSE").is_open

\* is_open as the gate computes it for one ticker
GateIsOpen(ticker) ==
    IF HasExchange(ticker)
    THEN get_market_status(info_cache[ticker]["exchange"]).is_open
    ELSE TRUE

\* Variant: the open-market window whatever the oracle says.
GateDuration_OpenWindowOnly(ticker) == CACHE_OPEN_MARKET_SECONDS

GateDuration(ticker) ==
    IF GateIsOpen(ticker) THEN CACHE_OPEN_MARKET_SECONDS
    ELSE CACHE_CLOSED_MARKET_SECONDS

\* Variant: an entry exactly as old as the window still counts as fresh.
NeedsFetch_Inclusive(ticker, now) ==
    ~ (/\ ticker \in DOMAIN price_cache
       /\ now - price_cache[ticker].ts <= GateDuration(ticker))

\* TRUE iff the non-forced loop appends the ticker to to_fetch
NeedsFetch(ticker, now) ==
    ~ (/\ ticker \in DOMAIN price_cache
       /\ now - price_cache[ticker].ts < GateDuration(ticker))

\* Variant: force_refresh is ignored.
ToFetch_IgnoreForce(valid, force_refresh, now) ==
    SelectSeq(valid, LAMBDA t : NeedsFetch(t, now))

ToFetch(valid, force_refresh, now) ==
    IF force_refresh THEN valid
    ELSE SelectSeq(valid, LAMBDA t : NeedsFetch(t, now))

\* the return statement: one payload per ticker that has a truthy cache entry
RECURSIVE Assemble(_, _, _)
Assemble(valid, cache, i) ==
    IF i > Len(valid) THEN <<>>
    ELSE LET rest == Assemble(valid, cache, i + 1)
         IN IF valid[i] \in DOMAIN cache /\ DictTruthy(cache[valid[i]].rec)
            THEN <<cache[valid[i]].rec>> \o rest
            ELSE rest

----------------------------------------------------------------------------
(* get_market_price_data_uncached *)

StaticInfo(info) ==
    [exchange |-> Get(info, "exchange"), shortName |-> Get(info, "shortName"),
     longName |-> Get(info, "longName")]

PriceRecord(ticker_symbol, info) ==
    [symbol |-> ticker_symbol,
     description |-> GetDefault(info, "longName", ticker_symbol),
     price |-> GetDefault(info, "currentPrice", Get(info, "regularMarketPrice")),
     previous_close |-> Get(info, "previousClose"),
     day_low |-> Get(info, "dayLow"), day_high |-> Get(info, "dayHigh"),
     fifty_two_week_low |-> Get(info, "fiftyTwoWeekLow"),
     fifty_two_week_high |-> Get(info, "fiftyTwoWeekHigh")]

Placeholder(ticker_symbol, text) ==
    [symbol |-> ticker_symbol, description |-> text, price |-> None,
     previous_close |-> None, day_low |-> None, day_high |-> None,
     fifty_two_week_low |-> None, fifty_two_week_high |-> None]

\* Variant: an answer without currency gets the record of a remote error.
FetchedRecord_OneFailureText(ticker_symbol, outcome) ==
    IF ~outcome.raises /\ DictTruthy(outcome.info) /\ Truthy(Get(outcome.info, "currency"))
    THEN PriceRecord(ticker_symbol, outcome.info)
    ELSE Placeholder(ticker_symbol, "Data Unavailable")

\* the loop body for one ticker: the record appended to data
FetchedRecord(ticker_symbol, outcome) ==
    IF outcome.raises THEN Placeholder(ticker_symbol, "Data Unavailable")
    ELSE IF DictTruthy(outcome.info) /\ Truthy(Get(outcome.info, "currency"))
         THEN PriceRecord(ticker_symbol, outcome.info)
         ELSE Placeholder(ticker_symbol, "Invalid Ticker")

\* the loop body for one ticker: the value stored in _info_cache
FetchedInfo(outcome) ==
    IF outcome.raises THEN EmptyDict
    ELSE IF DictTruthy(outcome.info) /\ Truthy(Get(outcome.info, "currency"))
         THEN StaticInfo(outcome.info)
         ELSE EmptyDict

\* Variant: the first ticker that raises ends the loop.
get_market_price_data_uncached_AbortOnError(tickers, outcomes) ==
    LET bad == {i \in 1..Len(tickers) : outcomes[tickers[i]].raises}
        n == IF bad = {} THEN Len(tickers)
             ELSE (CHOOSE i \in bad : \A j \in bad : i <= j) - 1
    IN [i \in 1..n |-> FetchedRecord(tickers[i], outcomes[tickers[i]])]

\* Variant: a ticker without currency gets no record.
get_market_price_data_uncached_SkipInvalid(tickers, outcomes) ==
    LET all == [i \in 1..Len(tickers) |-> FetchedRecord(tickers[i], outcomes[tickers[i]])]
    IN SelectSeq(all, LAMBDA r : r.description # "Invalid Ticker")

\* data, the list the function returns, for one outcome per ticker
get_market_price_data_uncached(tickers, outcomes) ==
    [i \in 1..Len(tickers) |-> FetchedRecord(tickers[i], outcomes[tickers[i]])]

\* Variant: a read that raises leaves the ticker's entry as it was.
InfoAfterFetch_KeepOnError(tickers, outcomes) ==
    LET kept == {s \in Range(tickers) : outcomes[s].raises /\ s \notin DOMAIN info_cache}
    IN [s \in (DOMAIN info_cache \cup Range(tickers)) \ kept |->
           IF s \in Range(tickers) /\ ~outcomes[s].raises
           THEN FetchedInfo(outcomes[s]) ELSE info_cache[s]]

\* _info_cache after the loop
InfoAfterFetch(tickers, outcomes) ==
    [s \in DOMAIN info_cache \cup Range(tickers) |->
        IF s \in Range(tickers) THEN FetchedInfo(outcomes[s]) ELSE info_cache[s]]

\* Variant: an existing entry keeps its timestamp and gets the new record.
WriteItems_KeepTimestamp(cache, fetched_data, ts) ==
    LET written == {fetched_data[i].symbol : i \in 1..Len(fetched_data)}
        item(s) == fetched_data[CHOOSE i \in 1..Len(fetched_data) :
                        /\ fetched_data[i].symbol = s
                        /\ \A j \in (i + 1)..Len(fetched_data) : fetched_data[j].symbol # s]
    IN [s \in DOMAIN cache \cup written |->
            IF s \in written
            THEN [ts |-> IF s \in DOMAIN cache THEN cache[s].ts ELSE ts, rec |-> item(s)]
            ELSE cache[s]]

\* cache after `for item in fetched_data: cache[item['symbol']] = (ts, item)`
WriteItems(cache, fetched_data, ts) ==
    LET written == {fetched_data[i].symbol : i \in 1..Len(fetched_data)}
        item(s) == fetched_data[CHOOSE i \in 1..Len(fetched_data) :
                        /\ fetched_data[i].symbol = s
                        /\ \A j \in (i + 1)..Len(fetched_data) : fetched_data[j].symbol # s]
    IN [s \in DOMAIN cache \cup written |->
            IF s \in written THEN [ts |-> ts, rec |-> item(s)] ELSE cache[s]]

\* Variant: the entries are stamped with the epoch instead of now_ts.
PriceAfterFetch_EpochStamp(fetched_data, now_ts) ==
    WriteItems(price_cache, fetched_data, 0)

\* _price_cache after the write loop of get_market_price_data
PriceAfterFetch(fetched_data, now_ts) ==
    WriteItems(price_cache, fetched_data, now_ts)

----------------------------------------------------------------------------
(* DbManager: the SQLite file holds table price_cache, one row per ticker *)

\* Variant: a row exactly at the cutoff is deleted too.
prune_expired_entries_Inclusive(rows, now) ==
    LET prune_before_ts == now - CACHE_PRUNE_EXPIRY_SECONDS
        kept == {t \in DOMAIN rows : ~(rows[t].timestamp <= prune_before_ts)}
    IN [t \in kept |-> rows[t]]

\* DELETE FROM price_cache WHERE timestamp < prune_before_ts
prune_expired_entries(rows, now) ==
    LET prune_before_ts == now - CACHE_PRUNE_EXPIRY_SECONDS
        kept == {t \in DOMAIN rows : ~(rows[t].timestamp < prune_before_ts)}
    IN [t \in kept |-> rows[t]]

NotOpened ==
    [done |-> FALSE, ok |-> FALSE, raised |-> FALSE, rows |-> EmptyDict, at |-> 0]

\* What the constructor can meet: "mkdir_error" is Path.mkdir raising OSError
\* (the parent cannot be created), "connect_error" is sqlite3.connect raising
\* sqlite3.Error.
OpenOutcomes == {"ok", "connect_error", "mkdir_error"}

\* DbManager.__init__: mkdir, connect, create the table, prune.  Only
\* sqlite3.Error is caught: it leaves conn = None; an OSError of mkdir leaves
\* the constructor as an exception.  The DELETE of the prune opens an implicit
\* transaction, which is committed only when rows were deleted.
DbOpen(outcome) ==
    /\ ~opened.done
    /\ LET connected == outcome = "ok"
           pruned == prune_expired_entries(db, clock)
           rows_deleted == Cardinality(DOMAIN db \ DOMAIN pruned)
       IN /\ opened' = [done |-> TRUE, ok |-> connected,
                        raised |-> (outcome = "mkdir_error"), rows |-> db,
                        at |-> clock]
          /\ conn' = IF connected THEN "open" ELSE "none"
          /\ db' = IF connected THEN pruned ELSE db
          /\ in_transaction' = (connected /\ ~(rows_deleted > 0))
    /\ UNCHANGED <<clock, ticks, op>>
    /\ UNCHANGED providerVars
    /\ UNCHANGED appVars

----------------------------------------------------------------------------
(* DbManager: what is stored in a row, and the conversions to and from it *)

\* The timestamp of an in-memory cache entry: an aware UTC datetime, or an
\* object that is no datetime (it has no .timestamp()).
Datetime(seconds) == [type |-> "datetime", seconds |-> seconds]
NotADatetime == [type |-> "NoneType", seconds |-> 0]

\* Column timestamp is a REAL: it can hold values no datetime has.  These two
\* stand for a value past year 9999 and a value past the platform's time_t.
YearOutOfRange == 2000000000
TimeTOutOfRange == 2100000000

\* the exception datetime.fromtimestamp(x, tz=timezone.utc) raises, if any
fromtimestamp_raises(x) ==
    CASE x >= TimeTOutOfRange -> "OverflowError"
      [] x >= YearOutOfRange -> "ValueError"
      [] OTHER -> "none"

fromtimestamp(x) == Datetime(x)

\* timestamp_dt.timestamp()
timestamp(dt) == dt.seconds

\* The values a payload dict holds: numbers (opaque tokens), strings, None,
\* and an object json.dumps rejects with TypeError.
NumberTokens == {"p1", "p2", "p3", "pc", "lo", "hi", "lo52", "hi52"}
PyStrings == Symbols \cup {"Long Name", "Invalid Ticker", "Data Unavailable"}
NotJsonValue == "<object>"

\* one JSON value as text, and back
JsonLiteral(v) ==
    CASE v = None -> "null"
      [] v \in NumberTokens -> v
      [] OTHER -> "\"" \o v \o "\""

PyValue(literal) ==
    IF literal = "null" THEN None
    ELSE IF literal \in NumberTokens THEN literal
    ELSE CHOOSE v \in PyStrings : JsonLiteral(v) = literal

\* json.dumps(data): the text of a JSON object, member by member
dumps_raises(data) == \E k \in DOMAIN data : data[k] = NotJsonValue

json_dumps(data) ==
    [valid |-> TRUE, members |-> [k \in DOMAIN data |-> JsonLiteral(data[k])]]

\* a text json.loads rejects with JSONDecodeError
CorruptJson == [valid |-> FALSE, members |-> EmptyDict]

json_loads(text) == [k \in DOMAIN text.members |-> PyValue(text.members[k])]

----------------------------------------------------------------------------
(* DbManager.load_cache_from_db *)

\* the inner try of the row loop: "none" when the row decodes
RowRaises(row) ==
    IF fromtimestamp_raises(row.timestamp) # "none"
    THEN fromtimestamp_raises(row.timestamp)
    ELSE IF ~row.data.valid THEN "JSONDecodeError" ELSE "none"

\* the exceptions the row loop catches
RowCaught == {"JSONDecodeError", "ValueError", "TypeError", "OSError"}

\* Variant: the rows are selected with the prune window.
load_cache_from_db_PruneWindow(rows, c, now, fault) ==
    LET selected == {t \in DOMAIN rows :
                        rows[t].timestamp >= now - CACHE_PRUNE_EXPIRY_SECONDS}
        good == {t \in selected : RowRaises(rows[t]) = "none"}
    IN [loaded |-> [t \in good |-> [ts |-> fromtimestamp(rows[t].timestamp),
                                    rec |-> json_loads(rows[t].data)]],
        raised |-> FALSE]

\* The mapping the method returns, and whether it raises instead.  c is
\* self.conn; fault: the SELECT raises sqlite3.Error; a closed connection
\* raises sqlite3.ProgrammingError at cursor(), which the method catches too.
load_cache_from_db(rows, c, now, fault) ==
    IF c = "none" THEN [loaded |-> EmptyDict, raised |-> FALSE]
    ELSE IF c = "closed" \/ fault THEN [loaded |-> EmptyDict, raised |-> FALSE]
    ELSE LET load_after_ts == now - CACHE_LOAD_DURATION_SECONDS
             selected == {t \in DOMAIN rows : rows[t].timestamp >= load_after_ts}
             good == {t \in selected : RowRaises(rows[t]) = "none"}
         IN IF \E t \in selected : RowRaises(rows[t]) \notin RowCaught \cup {"none"}
            THEN [loaded |-> EmptyDict, raised |-> TRUE]
            ELSE [loaded |-> [t \in good |->
                                 [ts |-> fromtimestamp(rows[t].timestamp),
                                  rec |-> json_loads(rows[t].data)]],
                  raised |-> FALSE]

----------------------------------------------------------------------------
(* DbManager.save_cache_to_db *)

\* cache_data is a dict: here the sequence of its items, in insertion order,
\* each [ticker, timestamp_dt, data].

\* the try of the serialisation loop succeeds for the entry
Serializable(e) == ~dumps_raises(e.data) /\ e.timestamp_dt.type = "datetime"

SerializedItem(e) ==
    [ticker |-> e.ticker, data |-> json_dumps(e.data),
     timestamp |-> timestamp(e.timestamp_dt)]

\* Variant: the first entry that cannot be serialised ends the loop.
items_to_save_AbortOnError(cache_data) ==
    LET bad == {i \in 1..Len(cache_data) : ~Serializable(cache_data[i])}
        n == IF bad = {} THEN Len(cache_data)
             ELSE (CHOOSE i \in bad : \A j \in bad : i <= j) - 1
    IN [i \in 1..n |-> SerializedItem(cache_data[i])]

items_to_save(cache_data) ==
    LET kept == SelectSeq(cache_data, Serializable)
    IN [i \in 1..Len(kept) |-> SerializedItem(kept[i])]

\* Variant: INSERT OR IGNORE, a row that exists is kept.
InsertOrReplace_Ignore(rows, item) ==
    [t \in DOMAIN rows \cup {item.ticker} |->
        IF t \in DOMAIN rows THEN rows[t]
        ELSE [data |-> item.data, timestamp |-> item.timestamp]]

\* INSERT OR REPLACE INTO price_cache, ticker being the primary key
InsertOrReplace(rows, item) ==
    [t \in DOMAIN rows \cup {item.ticker} |->
        IF t = item.ticker THEN [data |-> item.data, timestamp |-> item.timestamp]
        ELSE rows[t]]

\* the table as the transaction sees it after the first n items of executemany
RECURSIVE Executemany(_, _, _)
Executemany(rows, items, n) ==
    IF n = 0 THEN rows
    ELSE InsertOrReplace(Executemany(rows, items, n - 1), items[n])

\* Variant: the rows written before the failure stay.
save_cache_to_db_NoRollback(rows, c, intxn, cache_data, fault) ==
    LET items == items_to_save(cache_data)
        n == Len(items)
    IN IF c = "none" \/ items = <<>>
       THEN [rows |-> rows, in_transaction |-> intxn, raised |-> FALSE,
             committed |-> FALSE]
       ELSE IF c = "closed"
       THEN [rows |-> rows, in_transaction |-> FALSE, raised |-> TRUE,
             committed |-> FALSE]
       ELSE IF intxn
       THEN [rows |-> rows, in_transaction |-> FALSE, raised |-> FALSE,
             committed |-> FALSE]
       ELSE IF fault = 0
       THEN [rows |-> Executemany(rows, items, n), in_transaction |-> FALSE,
             raised |-> FALSE, committed |-> TRUE]
       ELSE [rows |-> Executemany(rows, items, IF fault > n THEN n ELSE fault - 1),
             in_transaction |-> FALSE, raised |-> FALSE, committed |-> FALSE]

\* What the method leaves: the committed table, conn.in_transaction, whether
\* the method raised, whether its commit was reached.  c is self.conn, intxn
\* conn.in_transaction at entry; fault = 0: the storage works; fault = k in
\* 1..n: the k-th INSERT raises sqlite3.Error; fault = n + 1: the commit does.
\*  - a closed connection raises at cursor(); the handler's conn.rollback()
\*    raises again, outside any try;
\*  - with a transaction already open, BEGIN TRANSACTION raises
\*    sqlite3.OperationalError; the handler's rollback ends that transaction;
\*  - a failure after BEGIN is rolled back.
save_cache_to_db(rows, c, intxn, cache_data, fault) ==
    LET items == items_to_save(cache_data)
        n == Len(items)
    IN IF c = "none" \/ items = <<>>
       THEN [rows |-> rows, in_transaction |-> intxn, raised |-> FALSE,
             committed |-> FALSE]
       ELSE IF c = "closed"
       THEN [rows |-> rows, in_transaction |-> FALSE, raised |-> TRUE,
             committed |-> FALSE]
       ELSE IF intxn
       THEN [rows |-> rows, in_transaction |-> FALSE, raised |-> FALSE,
             committed |-> FALSE]
       ELSE IF fault = 0
       THEN [rows |-> Executemany(rows, items, n), in_transaction |-> FALSE,
             raised |-> FALSE, committed |-> TRUE]
       ELSE [rows |-> rows, in_transaction |-> FALSE, raised |-> FALSE,
             committed |-> FALSE]

----------------------------------------------------------------------------
(* DbManager.close *)

\* Variant: closing a connection that is already closed raises.
close_RaiseWhenClosed(c) ==
    [conn |-> IF c = "none" THEN "none" ELSE "closed", raised |-> (c = "closed")]

\* `if self.conn: self.conn.close()`; sqlite3's close() of a closed
\* connection does nothing
close(c) ==
    [conn |-> IF c = "none" THEN "none" ELSE "closed", raised |-> FALSE]

----------------------------------------------------------------------------
(* Operations on a constructed DbManager *)

MaxStoreOps == 3

\* op.n: operations so far; op.rows, op.conn, op.at: the table, self.conn and
\* the instant at entry of the last one; op.handed: the tickers the saves of
\* this run handed to the storage on the open connection, op.prior: the same
\* before the last operation; op.saved: the entries the last save serialised
\* and handed to a storage that did not fail; op.intxn: conn.in_transaction at
\* entry.
NoOp ==
    [n |-> 0, name |-> "none", raised |-> FALSE, fault |-> 0, batch |-> <<>>,
     loaded |-> EmptyDict, committed |-> FALSE, rows |-> EmptyDict,
     conn |-> "none", intxn |-> FALSE, at |-> 0, handed |-> {}, prior |-> {},
     saved |-> <<>>]

Constructed == opened.done /\ ~opened.raised

Load(fault) ==
    /\ Constructed
    /\ LET r == load_cache_from_db(db, conn, clock, fault)
       IN op' = [op EXCEPT !.n = op.n + 1, !.name = "load", !.raised = r.raised,
                     !.fault = IF fault THEN 1 ELSE 0, !.batch = <<>>,
                     !.loaded = r.loaded, !.committed = FALSE, !.rows = db,
                     !.conn = conn, !.at = clock, !.prior = op.handed,
                     !.intxn = in_transaction]
    /\ UNCHANGED <<clock, ticks, db, conn, in_transaction, opened>>
    /\ UNCHANGED providerVars
    /\ UNCHANGED appVars

Save(cache_data, fault) ==
    /\ Constructed
    /\ LET items == items_to_save(cache_data)
           r == save_cache_to_db(db, conn, in_transaction, cache_data, fault)
       IN /\ fault <= Len(items) + 1
          /\ db' = r.rows
          /\ in_transaction' = r.in_transaction
          /\ op' = [op EXCEPT !.n = op.n + 1, !.name = "save", !.raised = r.raised,
                        !.fault = fault, !.batch = cache_data,
                        !.loaded = EmptyDict, !.committed = r.committed,
                        !.rows = db, !.conn = conn, !.at = clock,
                        !.intxn = in_transaction, !.prior = op.handed,
                        !.handed = IF conn = "open"
                                   THEN op.handed \cup {e.ticker : e \in Range(items)}
                                   ELSE op.handed,
                        !.saved = IF conn = "open" /\ fault = 0
                                  THEN SelectSeq(cache_data, Serializable)
                                  ELSE <<>>]
    /\ UNCHANGED <<clock, ticks, conn, opened>>
    /\ UNCHANGED providerVars
    /\ UNCHANGED appVars

Close ==
    /\ Constructed
    /\ LET r == close(conn)
       IN /\ conn' = r.conn
          /\ op' = [op EXCEPT !.n = op.n + 1, !.name = "close", !.raised = r.raised,
                        !.fault = 0, !.batch = <<>>, !.loaded = EmptyDict,
                        !.committed = FALSE, !.rows = db, !.conn = conn,
                        !.at = clock, !.prior = op.handed,
                        !.intxn = in_transaction]
    /\ in_transaction' = FALSE
    /\ UNCHANGED <<clock, ticks, db, opened>>
    /\ UNCHANGED providerVars
    /\ UNCHANGED appVars

----------------------------------------------------------------------------
(* get_ticker_info *)

\* what yf.Ticker(ticker).info can do: the outcomes of the batch fetch, an
\* empty dict, and a dict whose currency is the empty string
EmptyCurrencyInfo == [currency |-> "", exchange |-> "NYSE", longName |-> "Long Name"]

InfoOutcomes ==
    RemoteOutcomes \cup {[raises |-> FALSE, info |-> EmptyDict],
                         [raises |-> FALSE, info |-> EmptyCurrencyInfo]}

\* `not info or info.get('currency') is None`
LookupFailed(outcome) ==
    outcome.raises \/ ~DictTruthy(outcome.info) \/ Get(outcome.info, "currency") = None

\* Variant: only a truthy cache entry counts as a hit.
InfoCacheHit_TruthyOnly(cache, ticker) ==
    ticker \in DOMAIN cache /\ DictTruthy(cache[ticker])

\* `if ticker in _info_cache`
InfoCacheHit(cache, ticker) == ticker \in DOMAIN cache

\* Variant: a failed lookup stores nothing.
InfoAfterLookup_NoSentinel(cache, ticker, outcome) ==
    IF LookupFailed(outcome) THEN cache
    ELSE [t \in DOMAIN cache \cup {ticker} |->
             IF t = ticker THEN StaticInfo(outcome.info) ELSE cache[t]]

\* _info_cache after a lookup that missed the cache
InfoAfterLookup(cache, ticker, outcome) ==
    [t \in DOMAIN cache \cup {ticker} |->
        IF t # ticker THEN cache[t]
        ELSE IF LookupFailed(outcome) THEN EmptyDict
        ELSE StaticInfo(outcome.info)]

MaxLookups == 2

\* lookup.is_none: the call returned None; lookup.value: the dict it returned
\* otherwise; lookup.hit: the ticker had an entry when the call entered;
\* lookup.remote: the call read yf.Ticker(ticker).info
NoLookup ==
    [n |-> 0, ticker |-> "", hit |-> FALSE, remote |-> FALSE,
     outcome |-> [raises |-> FALSE, info |-> EmptyDict], is_none |-> FALSE,
     value |-> EmptyDict, raised |-> FALSE]

\* the body of get_ticker_info: what it returns and what it leaves in
\* _info_cache
TickerInfoCall(ticker, outcome) ==
    IF InfoCacheHit(info_cache, ticker)
    THEN /\ info_cache' = info_cache
         /\ lookup' = [n |-> lookup.n + 1, ticker |-> ticker,
                       hit |-> ticker \in DOMAIN info_cache, remote |-> FALSE,
                       outcome |-> NoLookup.outcome, is_none |-> FALSE,
                       value |-> info_cache[ticker], raised |-> FALSE]
    ELSE LET after == InfoAfterLookup(info_cache, ticker, outcome)
         IN /\ info_cache' = after
            /\ lookup' = [n |-> lookup.n + 1, ticker |-> ticker,
                          hit |-> ticker \in DOMAIN info_cache, remote |-> TRUE,
                          outcome |-> outcome,
                          is_none |-> LookupFailed(outcome),
                          value |-> IF LookupFailed(outcome) THEN EmptyDict
                                    ELSE Get(after, ticker),
                          raised |-> FALSE]

get_ticker_info(ticker, outcome) ==
    /\ TickerInfoCall(ticker, outcome)
    /\ UNCHANGED <<clock, ticks, mcal, news_cache, news, calendar, price_cache, call, prev, calls>>
    /\ UNCHANGED dbVars
    /\ UNCHANGED appVars

\* Variant: the cache becomes the given dictionary.
populate_info_cache_Replace(initial_data) ==
    /\ info_cache' = initial_data
    /\ UNCHANGED <<clock, ticks, mcal, news_cache, news, calendar, price_cache, call, prev, calls, lookup>>
    /\ UNCHANGED dbVars
    /\ UNCHANGED appVars

\* populate_info_cache: _info_cache.update(initial_data)
populate_info_cache(initial_data) ==
    /\ info_cache' = [s \in DOMAIN info_cache \cup DOMAIN initial_data |->
                         IF s \in DOMAIN initial_data THEN initial_data[s]
                         ELSE info_cache[s]]
    /\ UNCHANGED <<clock, ticks, mcal, news_cache, news, calendar, price_cache, call, prev, calls, lookup>>
    /\ UNCHANGED dbVars
    /\ UNCHANGED appVars

----------------------------------------------------------------------------
(* get_news_data *)

\* what yf.Ticker(t).news can do: raise, or return a list of items, each
\* with or without a 'content' dict
NewsWithContent == [id |-> "n1", content |-> TRUE]
NewsWithoutContent == [id |-> "n2", content |-> FALSE]

RawNews ==
    {<<>>, <<NewsWithContent>>, <<NewsWithoutContent>>,
     <<NewsWithoutContent, NewsWithContent>>}

NewsOutcomes ==
    {[raises |-> TRUE, raw |-> <<>>]} \cup {[raises |-> FALSE, raw |-> r] : r \in RawNews}

\* the loop over raw_news: `if not content: continue`, every other item
\* becomes an article
HasContent(item) == item.content

ProcessNews(raw_news) ==
    LET kept == SelectSeq(raw_news, HasContent)
    IN [i \in 1..Len(kept) |-> [title |-> kept[i].id]]

\* Variant: an entry exactly CACHE_CLOSED_MARKET_SECONDS old is still served.
NewsFresh_Inclusive(cache, normalized_ticker, now) ==
    /\ normalized_ticker \in DOMAIN cache
    /\ now - cache[normalized_ticker].ts <= CACHE_CLOSED_MARKET_SECONDS

\* `normalized_ticker in _news_cache` and the entry is younger than
\* CACHE_CLOSED_MARKET_SECONDS
NewsFresh(cache, normalized_ticker, now) ==
    /\ normalized_ticker \in DOMAIN cache
    /\ now - cache[normalized_ticker].ts < CACHE_CLOSED_MARKET_SECONDS

MaxNewsCalls == 2

\* news.path: the return statement the call left by ("blank": line 182,
\* "cached": 188, "invalid": 190, "empty": 192, "stored": 209, "raised": the
\* exception of line 191); news.is_none / news.value: what it returned;
\* news.info_remote / news.news_remote: it read yf.Ticker(..).info / .news;
\* news.prior: ticker and path of the call before it
NoNews ==
    [n |-> 0, ticker |-> "", path |-> "", is_none |-> FALSE, value |-> <<>>,
     info_remote |-> FALSE, news_remote |-> FALSE,
     prior |-> [ticker |-> "", path |-> ""]]

NewsReturn(ticker, path, is_none, value, info_remote, news_remote) ==
    [n |-> news.n + 1, ticker |-> ticker, path |-> path, is_none |-> is_none,
     value |-> value, info_remote |-> info_remote, news_remote |-> news_remote,
     prior |-> [ticker |-> news.ticker, path |-> news.path]]

get_news_data(ticker, outcome, news_outcome) ==
    /\ IF ticker = ""
       THEN /\ news' = NewsReturn(ticker, "blank", FALSE, <<>>, FALSE, FALSE)
            /\ UNCHANGED <<news_cache, info_cache, lookup>>
       ELSE IF NewsFresh(news_cache, Upper(ticker), clock)
       THEN /\ news' = NewsReturn(ticker, "cached", FALSE,
                                  news_cache[Upper(ticker)].data, FALSE, FALSE)
            /\ UNCHANGED <<news_cache, info_cache, lookup>>
       ELSE /\ TickerInfoCall(ticker, outcome)
            /\ IF lookup'.is_none \/ ~DictTruthy(lookup'.value)
               THEN /\ news' = NewsReturn(ticker, "invalid", TRUE, <<>>,
                                          lookup'.remote, FALSE)
                    /\ news_cache' = news_cache
               ELSE IF news_outcome.raises
               THEN /\ news' = NewsReturn(ticker, "raised", FALSE, <<>>,
                                          lookup'.remote, TRUE)
                    /\ news_cache' = news_cache
               ELSE IF news_outcome.raw = <<>>
               THEN /\ news' = NewsReturn(ticker, "empty", FALSE, <<>>,
                                          lookup'.remote, TRUE)
                    /\ news_cache' = news_cache
               ELSE LET processed_news == ProcessNews(news_outcome.raw)
                    IN /\ news' = NewsReturn(ticker, "stored", FALSE, processed_news,
                                             lookup'.remote, TRUE)
                       /\ news_cache' =
                             [t \in DOMAIN news_cache \cup {Upper(ticker)} |->
                                 IF t = Upper(ticker)
                                 THEN [ts |-> clock, data |-> processed_news]
                                 ELSE news_cache[t]]
    /\ UNCHANGED <<clock, ticks, mcal, calendar, price_cache, call, prev, calls>>
    /\ UNCHANGED dbVars
    /\ UNCHANGED appVars

----------------------------------------------------------------------------
(* Calls of get_market_price_data *)

NoCall ==
    [phase |-> "idle", tickers |-> <<>>, force |-> FALSE, valid |-> <<>>,
     now |-> 0, fresh |-> {}, to_fetch |-> <<>>, remote |-> <<>>,
     outcomes |-> EmptyDict, now_ts |-> 0, result |-> <<>>]

\* prev.repeat: the call in `call` was made with the arguments (same
\* normalised list, not forced) of the non-forced call that returned just
\* before it, at the instant at which that call entered; prev.result is what
\* that earlier call returned.
NoPrev == [repeat |-> FALSE, result |-> <<>>]

\* Entry of the call up to the end of the gate; a call with nothing to fetch
\* or with no valid ticker returns in the same step.
GetPricesBegin(tickers, force_refresh) ==
    /\ call.phase # "fetching"
    /\ LET valid == valid_tickers(tickers)
           to_fetch == IF valid = <<>> THEN <<>> ELSE ToFetch(valid, force_refresh, clock)
           started == [NoCall EXCEPT !.tickers = tickers, !.force = force_refresh,
                           !.valid = valid, !.now = clock, !.to_fetch = to_fetch,
                           !.fresh = {t \in Range(valid) : ~NeedsFetch(t, clock)}]
       IN /\ call' = IF to_fetch = <<>>
                     THEN [started EXCEPT !.phase = "done", !.now_ts = clock,
                               !.result = Assemble(valid, price_cache, 1)]
                     ELSE [started EXCEPT !.phase = "fetching"]
    /\ prev' = IF /\ call.phase = "done" /\ ~call.force /\ ~force_refresh
                  /\ call.valid = valid_tickers(tickers) /\ call.now = clock
               THEN [repeat |-> TRUE, result |-> call.result]
               ELSE NoPrev
    /\ calls' = calls + 1
    /\ UNCHANGED <<clock, ticks, mcal, news_cache, news, calendar, price_cache, info_cache, lookup>>
    /\ UNCHANGED dbVars
    /\ UNCHANGED appVars

\* The remote batch answers (one outcome per ticker of to_fetch), the caches
\* are written and the call returns.
GetPricesComplete(outcomes) ==
    /\ call.phase = "fetching"
    /\ DOMAIN outcomes = Range(call.to_fetch)
    /\ LET fetched_data == get_market_price_data_uncached(call.to_fetch, outcomes)
           new_price == PriceAfterFetch(fetched_data, clock)
       IN /\ info_cache' = InfoAfterFetch(call.to_fetch, outcomes)
          /\ price_cache' = new_price
          /\ call' = [call EXCEPT !.phase = "done", !.remote = call.to_fetch,
                          !.outcomes = outcomes, !.now_ts = clock,
                          !.result = Assemble(call.valid, new_price, 1)]
    /\ UNCHANGED <<clock, ticks, mcal, news_cache, news, calendar, prev, calls, lookup>>
    /\ UNCHANGED dbVars
    /\ UNCHANGED appVars

\* Variant: the cache becomes the given dictionary.
populate_price_cache_Replace(initial_data) ==
    /\ price_cache' = initial_data
    /\ UNCHANGED <<clock, ticks, mcal, news_cache, news, calendar, info_cache, call, prev, calls, lookup>>
    /\ UNCHANGED dbVars
    /\ UNCHANGED appVars

\* populate_price_cache: _price_cache.update(initial_data)
populate_price_cache(initial_data) ==
    /\ price_cache' = [s \in DOMAIN price_cache \cup DOMAIN initial_data |->
                          IF s \in DOMAIN initial_data THEN initial_data[s]
                          ELSE price_cache[s]]
    /\ UNCHANGED <<clock, ticks, mcal, news_cache, news, calendar, info_cache, call, prev, calls, lookup>>
    /\ UNCHANGED dbVars
    /\ UNCHANGED appVars

\* the caches as they are when the application starts: the moment at which
\* a start-up seeds them
PriceCacheAtStartup == calls = 0 /\ price_cache = EmptyDict
InfoCacheAtStartup == lookup.n = 0 /\ info_cache = EmptyDict

\* Time passes; the exchange calendars may change state with it (there are
\* none to change when the calendar library is not installed).
Tick(d, cal) ==
    /\ mcal \/ cal = calendar
    /\ clock' = clock + d
    /\ ticks' = ticks + 1
    /\ calendar' = cal
    /\ UNCHANGED <<mcal, news_cache, news, price_cache, info_cache, call, prev, calls, lookup>>
    /\ UNCHANGED dbVars
    /\ UNCHANGED appVars

----------------------------------------------------------------------------
(* is_cached and get_cached_price *)

\* Variant: the ticker is looked up as spelled.
is_cached_CaseSensitive(ticker) == ticker \in DOMAIN price_cache

\* `ticker.upper() in _price_cache`
is_cached(ticker) == Upper(ticker) \in DOMAIN price_cache

\* `entry = _price_cache.get(ticker.upper()); return entry[1] if entry else None`
\* (an entry is a 2-tuple, hence truthy); is_none: the call returned None,
\* value: the record it returned otherwise
get_cached_price(ticker) ==
    IF Upper(ticker) \in DOMAIN price_cache
    THEN [is_none |-> FALSE, value |-> price_cache[Upper(ticker)].rec]
    ELSE [is_none |-> TRUE, value |-> EmptyDict]

MaxQueries == 2

NoQuery ==
    [n |-> 0, ticker |-> "", is_cached |-> FALSE,
     price |-> [is_none |-> TRUE, value |-> EmptyDict]]

\* is_cached(ticker) and get_cached_price(ticker), called one after the other
CachedQuery(ticker) ==
    /\ query' = [n |-> query.n + 1, ticker |-> ticker,
                 is_cached |-> is_cached(ticker), price |-> get_cached_price(ticker)]
    /\ UNCHANGED <<clock, ticks, workers, app, config>>
    /\ UNCHANGED providerVars
    /\ UNCHANGED dbVars

----------------------------------------------------------------------------
(* ConfigManager._load_or_create *)

\* What a configuration file can be: absent; holding a JSON object; holding
\* the JSON text null; empty; text that is no JSON; bytes that are no UTF-8
\* text; or something open() refuses (a directory, no permission).
FileStates ==
    {"missing", "object", "null", "empty", "corrupt", "undecodable", "unreadable"}

\* The outcome of `with open(path, 'r') as f: json.load(f)`, and of
\* f.read() + json.loads for content.strip() that is not empty: a value,
\* json.JSONDecodeError, an OSError (IOError), or UnicodeDecodeError (a
\* ValueError that is neither of the two).
json_load(file, value) ==
    CASE file = "object" -> [error |-> "none", value |-> value]
      [] file = "null" -> [error |-> "none", value |-> None]
      [] file \in {"empty", "corrupt"} -> [error |-> "JSONDecodeError", value |-> None]
      [] file = "undecodable" -> [error |-> "UnicodeDecodeError", value |-> None]
      [] OTHER -> [error |-> "IOError", value |-> None]

\* `except (json.JSONDecodeError, IOError)`
CaughtOnRead(error) == error \in {"JSONDecodeError", "IOError"}

EmptyConfig == "{}"
UserData == "user_data"
DefaultData == "default_data"

\* ConfigManager._load_or_create(filename) on the given user and default
\* files; raised: an exception left the method, value: what it returned,
\* user: the user file afterwards
load_or_create(filename, user, default, writable) ==
    LET u == json_load(user, UserData)
        d == json_load(default, DefaultData)
    IN IF filename = "descriptions.json"
       THEN IF user = "missing" \/ user = "empty"
            THEN [raised |-> FALSE, value |-> EmptyConfig, user |-> user]
            ELSE IF u.error = "none"
                 THEN [raised |-> FALSE, value |-> u.value, user |-> user]
                 ELSE IF CaughtOnRead(u.error)
                      THEN [raised |-> FALSE, value |-> EmptyConfig, user |-> user]
                      ELSE [raised |-> TRUE, value |-> None, user |-> user]
       ELSE IF user # "missing" /\ u.error # "none" /\ ~CaughtOnRead(u.error)
            THEN [raised |-> TRUE, value |-> None, user |-> user]
            ELSE IF user # "missing" /\ u.error = "none" /\ u.value # None
                 THEN [raised |-> FALSE, value |-> u.value, user |-> user]
                 ELSE IF default = "missing"
                      THEN [raised |-> FALSE, value |-> EmptyConfig, user |-> user]
                      ELSE IF d.error = "none"
                           THEN [raised |-> FALSE, value |-> d.value,
                                 user |-> IF writable /\ user # "unreadable"
                                          THEN default ELSE user]
                           ELSE IF CaughtOnRead(d.error)
                                THEN [raised |-> FALSE, value |-> EmptyConfig,
                                      user |-> user]
                                ELSE [raised |-> TRUE, value |-> None, user |-> user]

MaxLoads == 2

\* config.user, config.default: the file `filename` in the user directory
\* and in default_configs; config.writable: the user directory accepts
\* writes; config.result: what the last _load_or_create call did
NoConfig ==
    [n |-> 0, filename |-> "settings.json", user |-> "missing",
     default |-> "missing", writable |-> TRUE, before |-> "missing",
     result |-> [raised |-> FALSE, value |-> None, user |-> "missing"]]

LoadOrCreate ==
    /\ config.n < MaxLoads
    /\ LET r == load_or_create(config.filename, config.user, config.default,
                               config.writable)
       IN config' = [config EXCEPT !.n = @ + 1, !.before = config.user,
                                   !.result = r, !.user = r.user]
    /\ UNCHANGED <<clock, ticks, workers, app, query>>
    /\ UNCHANGED providerVars
    /\ UNCHANGED dbVars

----------------------------------------------------------------------------
(* The application (main.py): tabs, fetch_prices workers, messages *)

\* config.lists: the tickers of each symbol list, as the user typed them
Lists == [stocks |-> <<"AA">>, crypto |-> <<"ms">>]

\* the categories of tab_map when the setting hidden_tabs hides the others
Categories == {"all", "stocks", "portfolio", "news"}
NoPriceCategories == {"history", "news", "debug", "configs"}
PriceViews == {"all"} \cup DOMAIN Lists

\* the symbols of a price view, as action_refresh and
\* _display_data_for_category collect them
SymbolsOf(category) ==
    IF category = "all" THEN Lists.stocks \o Lists.crypto ELSE Lists[category]

\* One fetch_prices worker.  state: "running" from the call of fetch_prices
\* until its thread has returned, then "done"; cancelled: the worker manager
\* has cancelled it; the other fields are the locals of the
\* get_market_price_data call it makes, written: the cache entries it wrote.
NewWorker(symbols, force, category) ==
    [state |-> "running", cancelled |-> FALSE, symbols |-> symbols,
     force |-> force, category |-> category, pc |-> "enter", valid |-> <<>>,
     now |-> 0, i |-> 1, duration |-> 0, to_fetch |-> <<>>, data |-> <<>>,
     now_ts |-> 0,
     result |-> <<>>, written |-> EmptyDict, posted |-> FALSE]

\* Variant: cancelling a thread worker stops its thread.
fetch_prices_CancelStops(ws, symbols, force, category) ==
    Append([w \in DOMAIN ws |->
               IF ws[w].state = "running"
               THEN [ws[w] EXCEPT !.cancelled = TRUE, !.state = "stopped"]
               ELSE ws[w]],
           NewWorker(symbols, force, category))

\* The call self.fetch_prices(symbols, force, category): the decorator
\* work(exclusive=True, thread=True) cancels the workers still running and
\* starts a new one in a thread.  A cancelled thread worker is only marked:
\* the function never looks at the mark, so its thread runs on.
fetch_prices(ws, symbols, force, category) ==
    Append([w \in DOMAIN ws |->
               IF ws[w].state = "running" THEN [ws[w] EXCEPT !.cancelled = TRUE]
               ELSE ws[w]],
           NewWorker(symbols, force, category))

\* app.phase: "init" before on_mount, "running", "stopped" after on_unmount;
\* app.active: the category of the active tab (None before the tabs exist);
\* app.table: the output container holds the DataTable #price-table;
\* app.shown: the category whose symbols the price table was last filled with;
\* app.inbox: the messages posted to the application and not yet handled;
\* app.last: the last PriceDataUpdated message handled and what was done;
\* app.at_stop: _price_cache as it was when on_unmount ran; app.runs: the
\* number of launches; app.navs: the number of tab changes of this launch.
NoLast ==
    [n |-> 0, category |-> None, active |-> None, table |-> FALSE,
     rendered |-> FALSE, worker |-> 0]

\* app.pview: the PortfolioView.  mount: the value of app.navs at the tab
\* activation whose view has run on_mount (0: none yet); selected: the value
\* of #portfolio-select; requested: the portfolio whose prices were last
\* asked for by a load or a refresh; table: the state of #portfolio-table;
\* raised: an exception has escaped action_refresh.
NoPortfolioView ==
    [mount |-> 0, selected |-> None, requested |-> None, table |-> "none",
     raised |-> FALSE]

NoApp ==
    [phase |-> "init", active |-> None, table |-> FALSE, shown |-> None,
     inbox |-> <<>>, last |-> NoLast, at_stop |-> EmptyDict, runs |-> 1,
     navs |-> 0, pview |-> NoPortfolioView]

TabActivated == [type |-> "TabActivated", category |-> None, worker |-> 0]
PriceDataUpdated(category, w) ==
    [type |-> "PriceDataUpdated", category |-> category, worker |-> w]

DefaultTab == "all"

MaxWorkers == 2
MaxNavs == 1
MaxRuns == 2

\* on_mount with the three callbacks it schedules: _rebuild_app activates the
\* default tab (which posts TabActivated), action_refresh(force=True) starts
\* a forced fetch for the active category.  Nothing is read from the
\* database and the caches are not written.
on_mount ==
    /\ app.phase = "init"
    /\ app' = [app EXCEPT !.phase = "running", !.active = DefaultTab,
                          !.inbox = <<TabActivated>>]
    /\ workers' = fetch_prices(workers, SymbolsOf(DefaultTab), TRUE, DefaultTab)
    /\ UNCHANGED <<clock, ticks, query, config>>
    /\ UNCHANGED providerVars
    /\ UNCHANGED dbVars

\* action_refresh(force) and action_refresh_all: a fetch for the symbols of
\* the active price view, or a forced fetch of every symbol under 'all'
action_refresh(force, force_all) ==
    /\ app.phase = "running"
    /\ Len(workers) < MaxWorkers
    /\ force_all => force
    /\ IF force_all
       THEN workers' = fetch_prices(workers, SymbolsOf("all"), TRUE, "all")
       ELSE /\ app.active \in PriceViews
            /\ workers' = fetch_prices(workers, SymbolsOf(app.active), force, app.active)
    /\ UNCHANGED <<clock, ticks, app, query, config>>
    /\ UNCHANGED providerVars
    /\ UNCHANGED dbVars

\* The user activates another tab: Tabs.active changes at once, the
\* TabActivated message is handled later.
ActivateTab(category) ==
    /\ app.phase = "running"
    /\ app.navs < MaxNavs
    /\ category # app.active
    /\ app' = [app EXCEPT !.active = category, !.navs = @ + 1,
                          !.inbox = Append(@, TabActivated)]
    /\ UNCHANGED <<clock, ticks, workers, query, config>>
    /\ UNCHANGED providerVars
    /\ UNCHANGED dbVars

AnyCached(symbols) == \E j \in 1..Len(symbols) : Upper(symbols[j]) \in DOMAIN price_cache

\* on_tabs_tab_activated with _display_data_for_category: the output
\* container is rebuilt for the active category; a price view whose symbols
\* have no cache entry at all starts a non-forced fetch, any other price view
\* is filled from the cache.
on_tabs_tab_activated ==
    /\ app.phase = "running"
    /\ app.inbox # <<>>
    /\ Head(app.inbox).type = "TabActivated"
    /\ LET category == app.active
           price_view == category \notin {"configs", "history", "news", "debug", "portfolio"}
           fetch == price_view /\ ~AnyCached(SymbolsOf(category))
       IN /\ fetch => Len(workers) < MaxWorkers
          /\ app' = [app EXCEPT !.inbox = Tail(@), !.table = price_view,
                         !.shown = IF price_view /\ ~fetch THEN category ELSE None]
          /\ workers' = IF fetch
                        THEN fetch_prices(workers, SymbolsOf(category), FALSE, category)
                        ELSE workers
    /\ UNCHANGED <<clock, ticks, query, config>>
    /\ UNCHANGED providerVars
    /\ UNCHANGED dbVars

\* The thread of worker w runs fetch_prices: one whole
\* get_market_price_data call, then post_message, which a stopped
\* application drops.
FetchPricesRun(w, outcomes) ==
    /\ w \in DOMAIN workers
    /\ workers[w].state = "running"
    /\ LET valid == valid_tickers(workers[w].symbols)
           to_fetch == IF valid = <<>> THEN <<>> ELSE ToFetch(valid, workers[w].force, clock)
           fetched_data == get_market_price_data_uncached(to_fetch, outcomes)
           new_price == IF to_fetch = <<>> THEN price_cache
                        ELSE PriceAfterFetch(fetched_data, clock)
           posted == app.phase = "running"
       IN /\ DOMAIN outcomes = Range(to_fetch)
          /\ price_cache' = new_price
          /\ info_cache' = IF to_fetch = <<>> THEN info_cache
                           ELSE InfoAfterFetch(to_fetch, outcomes)
          /\ workers' = [workers EXCEPT ![w] =
                [@ EXCEPT !.state = "done", !.pc = "done", !.valid = valid,
                          !.now = clock, !.to_fetch = to_fetch, !.data = fetched_data,
                          !.now_ts = clock, !.result = Assemble(valid, new_price, 1),
                          !.written = [s \in Range(to_fetch) |-> new_price[s]],
                          !.posted = posted]]
          /\ app' = IF posted
                    THEN [app EXCEPT !.inbox =
                             Append(@, PriceDataUpdated(workers[w].category, w))]
                    ELSE app
    /\ UNCHANGED <<clock, ticks, mcal, news_cache, news, calendar, call, prev, calls, lookup, query, config>>
    /\ UNCHANGED dbVars

\* Variant: a message for 'all' is relevant whatever the active tab.
is_relevant_AllAlways(active_category, category) ==
    \/ active_category = category
    \/ category = "all"

\* is_relevant of on_price_data_updated
is_relevant(active_category, category) ==
    \/ active_category = category
    \/ category = "all" /\ active_category \notin NoPriceCategories

\* on_price_data_updated: the table is cleared and filled again from the
\* cache with the symbols of the active category when the message is
\* relevant and the price table exists (NoMatches otherwise).
on_price_data_updated ==
    /\ app.phase = "running"
    /\ app.inbox # <<>>
    /\ Head(app.inbox).type = "PriceDataUpdated"
    /\ LET message == Head(app.inbox)
           rendered == is_relevant(app.active, message.category) /\ app.table
       IN app' = [app EXCEPT !.inbox = Tail(@),
                      !.shown = IF rendered THEN app.active ELSE @,
                      !.last = [n |-> app.last.n + 1, category |-> message.category,
                                active |-> app.active, table |-> app.table,
                                rendered |-> rendered, worker |-> message.worker]]
    /\ UNCHANGED <<clock, ticks, workers, query, config>>
    /\ UNCHANGED providerVars
    /\ UNCHANGED dbVars

\* on_unmount: the configuration files are saved and the workers are
\* cancelled; neither the caches nor the database are touched.
on_unmount ==
    /\ app.phase = "running"
    /\ app' = [app EXCEPT !.phase = "stopped", !.inbox = <<>>,
                          !.at_stop = price_cache]
    /\ workers' = [w \in DOMAIN workers |->
                     IF workers[w].state = "running"
                     THEN [workers[w] EXCEPT !.cancelled = TRUE] ELSE workers[w]]
    /\ UNCHANGED <<clock, ticks, query, config>>
    /\ UNCHANGED providerVars
    /\ UNCHANGED dbVars

\* The process ends (its threads with it) and the program is launched again:
\* the module-level caches start empty, the database file is what it was.
Relaunch ==
    /\ app.phase = "stopped"
    /\ app.runs < MaxRuns
    /\ \A w \in DOMAIN workers : workers[w].state = "done"
    /\ app' = [NoApp EXCEPT !.runs = app.runs + 1, !.at_stop = app.at_stop]
    /\ workers' = <<>>
    /\ price_cache' = EmptyDict
    /\ info_cache' = EmptyDict
    /\ UNCHANGED <<clock, ticks, mcal, news_cache, news, calendar, call, prev, calls, lookup, query, config>>
    /\ UNCHANGED dbVars

----------------------------------------------------------------------------
(* The portfolio view: PortfolioView, fetch_portfolio_prices and the
   portfolio branch of action_refresh.  No PortfolioDataUpdated message is
   ever posted, so on_portfolio_data_updated never runs and has no action. *)

\* config.portfolios: one portfolio with one ticker
Portfolios == [main |-> <<"AA">>]

\* the first key of config.portfolios, selected by _populate_portfolio_select
FirstPortfolio == "main"

\* the names market_provider defines that a worker can call
ProviderFunctions ==
    {"populate_price_cache", "populate_info_cache", "get_price_cache_state",
     "get_info_cache_state", "get_market_price_data",
     "get_market_price_data_uncached", "get_ticker_info", "get_market_status",
     "get_historical_data", "get_news_data", "get_ticker_info_comparison",
     "run_ticker_debug_test", "run_list_debug_test", "run_cache_test",
     "is_cached", "get_cached_price"}

\* the attributes PortfolioView defines besides those of a Textual widget
PortfolioViewAttributes ==
    {"compose", "on_mount", "_populate_portfolio_select", "_load_portfolio",
     "_clear_portfolio_table", "update_portfolio_data", "on_portfolio_selected"}

\* One fetch_portfolio_prices worker; raised: the body of its try raised.
NewPortfolioWorker(portfolio_name, tickers, force_refresh) ==
    [state |-> "running", cancelled |-> FALSE, symbols |-> tickers,
     force |-> force_refresh, category |-> "portfolio",
     portfolio_name |-> portfolio_name, raised |-> FALSE, posted |-> FALSE]

\* The call self.fetch_portfolio_prices(...): work(exclusive=True,
\* thread=True) puts it in the same default group as fetch_prices, so the
\* workers still running are marked cancelled and a new thread starts.
fetch_portfolio_prices(ws, portfolio_name, tickers, force_refresh) ==
    Append([w \in DOMAIN ws |->
               IF ws[w].state = "running" THEN [ws[w] EXCEPT !.cancelled = TRUE]
               ELSE ws[w]],
           NewPortfolioWorker(portfolio_name, tickers, force_refresh))

\* the output container holds a PortfolioView: the last TabActivated message
\* was handled while the portfolio tab was active
PortfolioViewMounted ==
    /\ app.phase = "running"
    /\ app.active = "portfolio"
    /\ \A i \in 1..Len(app.inbox) : app.inbox[i].type # "TabActivated"

\* PortfolioView.on_mount: _populate_portfolio_select selects the first
\* portfolio and _load_portfolio clears the table and, the portfolio having
\* tickers, starts fetch_portfolio_prices.
PortfolioView_on_mount ==
    /\ PortfolioViewMounted
    /\ app.pview.mount # app.navs
    /\ Len(workers) < MaxWorkers
    /\ LET tickers == Portfolios[FirstPortfolio]
       IN /\ app' = [app EXCEPT !.pview =
                        [@ EXCEPT !.mount = app.navs, !.selected = FirstPortfolio,
                                  !.requested = IF tickers # <<>> THEN FirstPortfolio ELSE @,
                                  !.table = IF tickers # <<>> THEN "cleared" ELSE "no stocks"]]
          /\ workers' = IF tickers # <<>>
                        THEN fetch_portfolio_prices(workers, FirstPortfolio, tickers, FALSE)
                        ELSE workers
    /\ UNCHANGED <<clock, ticks, query, config>>
    /\ UNCHANGED providerVars
    /\ UNCHANGED dbVars

\* action_refresh(force) while the portfolio tab is active: line 446 reads
\* portfolio_view.active_portfolio; when the view is mounted and has no such
\* attribute the AttributeError leaves action_refresh (only NoMatches is
\* caught) and the application ends.
action_refresh_portfolio(force) ==
    /\ app.phase = "running"
    /\ app.active = "portfolio"
    /\ Len(workers) < MaxWorkers
    /\ IF ~PortfolioViewMounted
       THEN UNCHANGED <<app, workers>>
       ELSE IF "active_portfolio" \notin PortfolioViewAttributes
            THEN /\ app' = [app EXCEPT !.phase = "crashed", !.inbox = <<>>,
                                       !.pview = [@ EXCEPT !.requested = app.pview.selected,
                                                           !.raised = TRUE]]
                 /\ UNCHANGED workers
            ELSE /\ app.pview.selected # None
                 /\ app' = [app EXCEPT !.pview = [@ EXCEPT !.requested = app.pview.selected]]
                 /\ workers' = fetch_portfolio_prices(workers, app.pview.selected,
                                   Portfolios[app.pview.selected], force)
    /\ UNCHANGED <<clock, ticks, query, config>>
    /\ UNCHANGED providerVars
    /\ UNCHANGED dbVars

\* The thread of worker w runs fetch_portfolio_prices: the attribute lookup
\* market_provider.get_portfolio_price_data raises AttributeError when the
\* module defines no such function; the except of line 654 logs it and the
\* thread ends without posting.
FetchPortfolioPricesRun(w) ==
    /\ w \in DOMAIN workers
    /\ workers[w].state = "running"
    /\ workers[w].category = "portfolio"
    /\ LET raised == "get_portfolio_price_data" \notin ProviderFunctions
           posted == ~raised /\ app.phase = "running"
       IN /\ workers' = [workers EXCEPT ![w] =
                [@ EXCEPT !.state = "done", !.raised = raised, !.posted = posted]]
          /\ app' = IF posted
                    THEN [app EXCEPT !.inbox =
                             Append(@, [type |-> "PortfolioDataUpdated",
                                        category |-> workers[w].portfolio_name,
                                        worker |-> w])]
                    ELSE app
    /\ UNCHANGED <<clock, ticks, query, config>>
    /\ UNCHANGED providerVars
    /\ UNCHANGED dbVars

----------------------------------------------------------------------------
(* get_market_price_data in a worker thread, one statement at a time.  The
   interpreter switches threads between bytecodes, each dictionary read or
   write is atomic; the steps below are the reads and writes of the shared
   dictionaries, each with the local computation before it. *)

Put(d, k, v) == [x \in DOMAIN d \cup {k} |-> IF x = k THEN v ELSE d[x]]

Running(w) == w \in DOMAIN workers /\ workers[w].state = "running"

\* lines 56-67: the list is normalised, now is read; an empty list returns,
\* force_refresh copies the list into to_fetch
WorkerEnter(w) ==
    /\ Running(w)
    /\ workers[w].pc = "enter"
    /\ LET valid == valid_tickers(workers[w].symbols)
           entered == [workers[w] EXCEPT !.valid = valid, !.now = clock, !.i = 1]
       IN workers' = [workers EXCEPT ![w] =
              IF valid = <<>> THEN [entered EXCEPT !.pc = "post"]
              ELSE IF workers[w].force
                   THEN [entered EXCEPT !.to_fetch = valid, !.pc = "fetch"]
                   ELSE [entered EXCEPT !.pc = "gate"]]
    /\ UNCHANGED <<clock, ticks, app, query, config>>
    /\ UNCHANGED providerVars
    /\ UNCHANGED dbVars

\* lines 66-75, first half of one iteration of the gate loop: _info_cache
\* and the oracle are read, duration is computed
WorkerGateInfo(w) ==
    /\ Running(w)
    /\ workers[w].pc = "gate"
    /\ LET me == workers[w]
       IN workers' = [workers EXCEPT ![w] =
              [me EXCEPT !.duration = GateDuration(me.valid[me.i]),
                         !.pc = "gate_price"]]
    /\ UNCHANGED <<clock, ticks, app, query, config>>
    /\ UNCHANGED providerVars
    /\ UNCHANGED dbVars

\* lines 77-82, second half: _price_cache is read, the ticker is skipped or
\* appended to to_fetch
WorkerGatePrice(w) ==
    /\ Running(w)
    /\ workers[w].pc = "gate_price"
    /\ LET me == workers[w]
           ticker == me.valid[me.i]
           fresh == /\ ticker \in DOMAIN price_cache
                    /\ me.now - price_cache[ticker].ts < me.duration
           to_fetch == IF fresh THEN me.to_fetch ELSE Append(me.to_fetch, ticker)
           last == me.i = Len(me.valid)
       IN workers' = [workers EXCEPT ![w] =
              [me EXCEPT !.to_fetch = to_fetch,
                         !.i = IF last THEN 1 ELSE me.i + 1,
                         !.pc = IF ~last THEN "gate"
                                ELSE IF to_fetch # <<>> THEN "fetch" ELSE "return"]]
    /\ UNCHANGED <<clock, ticks, app, query, config>>
    /\ UNCHANGED providerVars
    /\ UNCHANGED dbVars

\* lines 105-123: one iteration of the loop of get_market_price_data_uncached
WorkerFetch(w, outcome) ==
    /\ Running(w)
    /\ workers[w].pc = "fetch"
    /\ LET me == workers[w]
           ticker == me.to_fetch[me.i]
           last == me.i = Len(me.to_fetch)
       IN /\ info_cache' = Put(info_cache, ticker, FetchedInfo(outcome))
          /\ workers' = [workers EXCEPT ![w] =
                [me EXCEPT !.data = Append(me.data, FetchedRecord(ticker, outcome)),
                           !.i = IF last THEN 1 ELSE me.i + 1,
                           !.pc = IF last THEN "stamp" ELSE "fetch"]]
    /\ UNCHANGED <<clock, ticks, mcal, news_cache, news, calendar, price_cache, call, prev, calls, lookup>>
    /\ UNCHANGED <<app, query, config>>
    /\ UNCHANGED dbVars

\* line 86: now_ts = datetime.now(timezone.utc)
WorkerStamp(w) ==
    /\ Running(w)
    /\ workers[w].pc = "stamp"
    /\ workers' = [workers EXCEPT ![w] = [@ EXCEPT !.now_ts = clock, !.pc = "write"]]
    /\ UNCHANGED <<clock, ticks, app, query, config>>
    /\ UNCHANGED providerVars
    /\ UNCHANGED dbVars

\* Variant: the items are stamped with now, the time read before the gate.
WorkerWrite_StampAtEntry(w) ==
    /\ Running(w)
    /\ workers[w].pc = "write"
    /\ LET me == workers[w]
           item == me.data[me.i]
           last == me.i = Len(me.data)
       IN /\ price_cache' = WriteItems(price_cache, <<item>>, me.now)
          /\ workers' = [workers EXCEPT ![w] =
                [me EXCEPT !.written = Put(me.written, item.symbol,
                                           [ts |-> me.now, rec |-> item]),
                           !.i = IF last THEN 1 ELSE me.i + 1,
                           !.pc = IF last THEN "return" ELSE "write"]]
    /\ UNCHANGED <<clock, ticks, mcal, news_cache, news, calendar, info_cache, call, prev, calls, lookup>>
    /\ UNCHANGED <<app, query, config>>
    /\ UNCHANGED dbVars

\* Variant: each item is stamped with the time of its own write.
WorkerWrite_StampPerItem(w) ==
    /\ Running(w)
    /\ workers[w].pc = "write"
    /\ LET me == workers[w]
           item == me.data[me.i]
           last == me.i = Len(me.data)
       IN /\ price_cache' = WriteItems(price_cache, <<item>>, clock)
          /\ workers' = [workers EXCEPT ![w] =
                [me EXCEPT !.written = Put(me.written, item.symbol,
                                           [ts |-> clock, rec |-> item]),
                           !.i = IF last THEN 1 ELSE me.i + 1,
                           !.pc = IF last THEN "return" ELSE "write"]]
    /\ UNCHANGED <<clock, ticks, mcal, news_cache, news, calendar, info_cache, call, prev, calls, lookup>>
    /\ UNCHANGED <<app, query, config>>
    /\ UNCHANGED dbVars

\* lines 87-88: one iteration of the write loop
WorkerWrite(w) ==
    /\ Running(w)
    /\ workers[w].pc = "write"
    /\ LET me == workers[w]
           item == me.data[me.i]
           last == me.i = Len(me.data)
       IN /\ price_cache' = WriteItems(price_cache, <<item>>, me.now_ts)
          /\ workers' = [workers EXCEPT ![w] =
                [me EXCEPT !.written = Put(me.written, item.symbol,
                                           [ts |-> me.now_ts, rec |-> item]),
                           !.i = IF last THEN 1 ELSE me.i + 1,
                           !.pc = IF last THEN "return" ELSE "write"]]
    /\ UNCHANGED <<clock, ticks, mcal, news_cache, news, calendar, info_cache, call, prev, calls, lookup>>
    /\ UNCHANGED <<app, query, config>>
    /\ UNCHANGED dbVars

\* line 90: one iteration of the comprehension of the return statement
WorkerReturn(w) ==
    /\ Running(w)
    /\ workers[w].pc = "return"
    /\ LET me == workers[w]
           last == me.i = Len(me.valid)
       IN workers' = [workers EXCEPT ![w] =
              [me EXCEPT !.result = me.result \o Assemble(<<me.valid[me.i]>>, price_cache, 1),
                         !.i = IF last THEN 1 ELSE me.i + 1,
                         !.pc = IF last THEN "post" ELSE "return"]]
    /\ UNCHANGED <<clock, ticks, app, query, config>>
    /\ UNCHANGED providerVars
    /\ UNCHANGED dbVars

\* main.py 581: post_message(PriceDataUpdated(data, category)); the thread ends
WorkerPost(w) ==
    /\ Running(w)
    /\ workers[w].pc = "post"
    /\ LET posted == app.phase = "running"
       IN /\ workers' = [workers EXCEPT ![w] =
                [@ EXCEPT !.state = "done", !.pc = "done", !.posted = posted]]
          /\ app' = IF posted
                    THEN [app EXCEPT !.inbox =
                             Append(@, PriceDataUpdated(workers[w].category, w))]
                    ELSE app
    /\ UNCHANGED <<clock, ticks, query, config>>
    /\ UNCHANGED providerVars
    /\ UNCHANGED dbVars

TickSteps == {299, 300, 86399, 86400}

GateInputs ==
    {<<>>, <<"AA">>, <<"ms">>, <<"AA", "ms">>, <<"ms", "AA">>, <<"AA", "AA">>}
InputLists == SeqsUpTo(RawTickers, MaxInput)

StartClock == 864000

Init ==
    /\ clock = StartClock
    /\ ticks = 0
    /\ mcal \in BOOLEAN
    /\ calendar \in [Calendars -> CalendarStates]
    /\ mcal \/ calendar = [c \in Calendars |-> "error"]
    /\ price_cache = EmptyDict
    /\ info_cache = EmptyDict
    /\ call = NoCall
    /\ prev = NoPrev
    /\ calls = 0
    /\ db = EmptyDict
    /\ conn = "none"
    /\ in_transaction = FALSE
    /\ opened = NotOpened
    /\ op = NoOp
    /\ lookup = NoLookup
    /\ news_cache = EmptyDict
    /\ news = NoNews
    /\ workers = <<>>
    /\ app = NoApp
    /\ query = NoQuery
    /\ config = NoConfig

Next ==
    \/ /\ calls < MaxCalls
       /\ \E tickers \in GateInputs, force \in BOOLEAN : GetPricesBegin(tickers, force)
    \/ \E outcomes \in [Range(call.to_fetch) -> RemoteOutcomes] : GetPricesComplete(outcomes)
    \/ /\ ticks < MaxTicks
       /\ \E d \in TickSteps, cal \in [Calendars -> CalendarStates] : Tick(d, cal)

Spec == Init /\ [][Next]_vars

\* The same calls on arbitrary ticker lists (any case, duplicates, empty
\* entries), with the market open throughout.
InitNorm == Init /\ mcal /\ calendar = [c \in Calendars |-> "open"]

\* what a start-up load can seed the price cache with: entries a minute old
SeedCaches ==
    {[s \in keys |-> [ts |-> StartClock - 60, rec |-> PriceRecord(s, FullInfo("p2"))]] :
        keys \in {{"AA"}, Symbols}}

NormOutcomes ==
    {[raises |-> TRUE, info |-> EmptyDict], [raises |-> FALSE, info |-> FullInfo("p1")]}

NextNorm ==
    \/ /\ PriceCacheAtStartup
       /\ \E initial_data \in SeedCaches : populate_price_cache(initial_data)
    \/ /\ calls < MaxNormCalls
       /\ \E tickers \in InputLists, force \in BOOLEAN : GetPricesBegin(tickers, force)
    \/ \E outcomes \in [Range(call.to_fetch) -> NormOutcomes] : GetPricesComplete(outcomes)

SpecNorm == InitNorm /\ [][NextNorm]_vars

\* The database file as earlier runs left it: at most one row per ticker (the
\* primary key), written at some earlier instant.
RowAges == {0, 90000, 518400, 604799, 604800, 604801, 691200}
RowData == {"json"}

StoredRows ==
    UNION {[keys -> [data : RowData, timestamp : {StartClock - a : a \in RowAges}]] :
               keys \in SUBSET Symbols}

InitDb ==
    /\ clock = StartClock
    /\ ticks = 0
    /\ mcal = TRUE
    /\ calendar = [c \in Calendars |-> "open"]
    /\ price_cache = EmptyDict
    /\ info_cache = EmptyDict
    /\ call = NoCall
    /\ prev = NoPrev
    /\ calls = 0
    /\ db \in StoredRows
    /\ conn = "none"
    /\ in_transaction = FALSE
    /\ opened = NotOpened
    /\ op = NoOp
    /\ lookup = NoLookup
    /\ news_cache = EmptyDict
    /\ news = NoNews
    /\ workers = <<>>
    /\ app = NoApp
    /\ query = NoQuery
    /\ config = NoConfig

NextDb == \E outcome \in OpenOutcomes : DbOpen(outcome)

SpecDb == InitDb /\ [][NextDb]_vars

\* The DbManager of one run: constructed on the database file earlier runs
\* left, then loaded from, saved to and closed in any order.  Rows of the file
\* may be damaged: a text that is no JSON, a timestamp no datetime has.
GoodRow(t, age) ==
    [data |-> json_dumps(PriceRecord(t, FullInfo("p2"))), timestamp |-> StartClock - age]

StoreRowChoices(t) ==
    IF t = "AA"
    THEN {GoodRow(t, a) : a \in {3600, 90000, 691200}}
    ELSE {GoodRow(t, 86400),
          [data |-> CorruptJson, timestamp |-> StartClock - 3600],
          [GoodRow(t, 0) EXCEPT !.timestamp = YearOutOfRange],
          [GoodRow(t, 0) EXCEPT !.timestamp = TimeTOutOfRange]}

StoreRows ==
    UNION {{f \in [keys -> UNION {StoreRowChoices(t) : t \in keys}] :
               \A t \in keys : f[t] \in StoreRowChoices(t)} : keys \in SUBSET Symbols}

\* the items a caller can hand to save_cache_to_db for one ticker
EntryChoices(t) ==
    IF t = "AA"
    THEN {[ticker |-> t, timestamp_dt |-> Datetime(clock),
           data |-> PriceRecord(t, FullInfo("p1"))],
          [ticker |-> t, timestamp_dt |-> Datetime(clock - 60),
           data |-> Placeholder(t, "Data Unavailable")],
          [ticker |-> t, timestamp_dt |-> Datetime(clock),
           data |-> [PriceRecord(t, FullInfo("p1")) EXCEPT !.price = NotJsonValue]]}
    ELSE {[ticker |-> t, timestamp_dt |-> Datetime(clock),
           data |-> PriceRecord(t, SparseInfo)],
          [ticker |-> t, timestamp_dt |-> NotADatetime,
           data |-> PriceRecord(t, FullInfo("p1"))]}

MaxBatch == 2

CacheDatas ==
    {q \in SeqsUpTo(UNION {EntryChoices(t) : t \in Symbols}, MaxBatch) :
        \A i, j \in 1..Len(q) : i # j => q[i].ticker # q[j].ticker}

InitStore ==
    /\ clock = StartClock
    /\ ticks = 0
    /\ mcal = TRUE
    /\ calendar = [c \in Calendars |-> "open"]
    /\ price_cache = EmptyDict
    /\ info_cache = EmptyDict
    /\ call = NoCall
    /\ prev = NoPrev
    /\ calls = 0
    /\ db \in StoreRows
    /\ conn = "none"
    /\ in_transaction = FALSE
    /\ opened = NotOpened
    /\ op = NoOp
    /\ lookup = NoLookup
    /\ news_cache = EmptyDict
    /\ news = NoNews
    /\ workers = <<>>
    /\ app = NoApp
    /\ query = NoQuery
    /\ config = NoConfig

NextStore ==
    \/ \E outcome \in OpenOutcomes : DbOpen(outcome)
    \/ /\ op.n < MaxStoreOps
       /\ \/ \E fault \in BOOLEAN : Load(fault)
          \/ \E cache_data \in CacheDatas, fault \in 0..(MaxBatch + 1) :
                Save(cache_data, fault)
          \/ Close

SpecStore == InitStore /\ [][NextStore]_vars

\* get_ticker_info on raw tickers, after a start-up seed of the info cache
LookupTickers == {"aa", "AA", "MS"}

SeedInfos ==
    {[s \in {"AA"} |-> EmptyDict],
     [s \in {"AA", "MS"} |-> IF s = "AA" THEN StaticInfo(FullInfo("p2")) ELSE EmptyDict]}

NextInfo ==
    \/ /\ InfoCacheAtStartup
       /\ \E initial_data \in SeedInfos : populate_info_cache(initial_data)
    \/ /\ lookup.n < MaxLookups
       /\ \E ticker \in LookupTickers, outcome \in InfoOutcomes :
             get_ticker_info(ticker, outcome)

SpecInfo == InitNorm /\ [][NextInfo]_vars

\* One run of the provider: get_ticker_info and get_market_price_data called
\* in any order for the same symbols, with time passing in between.
RunTickers == {"AA", "MS"}
RunInputs == {<<"AA">>, <<"AA", "ms">>}

RunOutcomes ==
    {[raises |-> TRUE, info |-> EmptyDict], [raises |-> FALSE, info |-> FullInfo("p1")],
     [raises |-> FALSE, info |-> NoCurrencyInfo]}

NextRun ==
    \/ /\ lookup.n < MaxLookups
       /\ \E ticker \in RunTickers, outcome \in RunOutcomes :
             get_ticker_info(ticker, outcome)
    \/ /\ calls < MaxCalls
       /\ \E tickers \in RunInputs, force \in BOOLEAN : GetPricesBegin(tickers, force)
    \/ \E outcomes \in [Range(call.to_fetch) -> RunOutcomes] : GetPricesComplete(outcomes)
    \/ /\ ticks < MaxTicks
       /\ Tick(CACHE_OPEN_MARKET_SECONDS, calendar)

SpecRun == InitNorm /\ [][NextRun]_vars

\* One call of get_market_price_data on caches that hold entries of every
\* age around the two windows, with the exchange of AA known, unknown or
\* marked failed, under every answer of the market-status oracle.
BatchInputs == {<<>>, <<"AA", "ms">>, <<"ms", "AA", "ms">>}

EntryAged(s, age) == [ts |-> StartClock - age, rec |-> PriceRecord(s, FullInfo("p2"))]

AgedCaches ==
    {[s \in keys |-> EntryAged(s, IF s = "AA" THEN a ELSE 299)] :
        keys \in {{"AA"}, {"AA", "MS"}}, a \in {299, 300, 86399, 86400}}

KnownInfos ==
    {[s \in {"AA"} |-> StaticInfo(FullInfo("p2"))], [s \in {"AA"} |-> EmptyDict]}

NextGate ==
    \/ /\ PriceCacheAtStartup
       /\ \E initial_data \in AgedCaches : populate_price_cache(initial_data)
    \/ /\ calls = 0
       /\ InfoCacheAtStartup
       /\ \E initial_data \in KnownInfos : populate_info_cache(initial_data)
    \/ /\ calls < MaxNormCalls
       /\ \E tickers \in BatchInputs, force \in BOOLEAN : GetPricesBegin(tickers, force)
    \/ \E outcomes \in [Range(call.to_fetch) -> NormOutcomes] : GetPricesComplete(outcomes)

SpecGate == Init /\ [][NextGate]_vars

\* Calls of get_market_price_data on AA, whose exchange may be known from
\* the start, with fetches that fail or answer and with 299 or 300 seconds
\* passing between calls, under every answer of the market-status oracle.
RetrySteps == {299, 300}

NextRetry ==
    \/ /\ calls = 0
       /\ InfoCacheAtStartup
       /\ \E initial_data \in KnownInfos : populate_info_cache(initial_data)
    \/ /\ calls < MaxCalls
       /\ \E tickers \in RunInputs, force \in BOOLEAN : GetPricesBegin(tickers, force)
    \/ \E outcomes \in [Range(call.to_fetch) -> NormOutcomes] : GetPricesComplete(outcomes)
    \/ /\ ticks < MaxTicks
       /\ call.phase # "fetching"
       /\ \E d \in RetrySteps : Tick(d, calendar)

SpecRetry == Init /\ [][NextRetry]_vars

\* The two populate functions called at any moment, on empty caches and on
\* caches that calls of get_market_price_data have filled, with dictionaries
\* that share keys with the cache or not.
SeedPrices ==
    {EmptyDict, [s \in {"AA"} |-> EntryAged(s, 60)], [s \in {"AA", "MS"} |-> EntryAged(s, 120)]}

SeedStatics ==
    {EmptyDict, [s \in {"AA"} |-> EmptyDict], [s \in {"MS"} |-> StaticInfo(FullInfo("p2"))]}

NextSeed ==
    \/ \E initial_data \in SeedPrices : populate_price_cache(initial_data)
    \/ \E initial_data \in SeedStatics : populate_info_cache(initial_data)
    \/ /\ calls < MaxNormCalls
       /\ \E tickers \in RunInputs, force \in BOOLEAN : GetPricesBegin(tickers, force)
    \/ \E outcomes \in [Range(call.to_fetch) -> NormOutcomes] : GetPricesComplete(outcomes)

SpecSeed == InitNorm /\ [][NextSeed]_vars

\* A process start that does what the comment on _price_cache announces:
\* the database an earlier run left is opened and loaded, the price cache
\* is seeded with what was loaded, and get_market_price_data is called.
\* Nothing seeds _info_cache: the database has no table for it.
RestartAges == {299, 300, 3600}

RestartRows ==
    {[s \in keys |-> GoodRow(s, IF s = "AA" THEN a ELSE 299)] :
        keys \in {{"AA"}, {"AA", "MS"}}, a \in RestartAges}

\* the loaded mapping as entries of _price_cache
LoadedEntries(loaded) ==
    [t \in DOMAIN loaded |-> [ts |-> timestamp(loaded[t].ts), rec |-> loaded[t].rec]]

InitRestart ==
    /\ clock = StartClock
    /\ ticks = 0
    /\ mcal = TRUE
    /\ calendar \in [Calendars -> {"open", "closed"}]
    /\ price_cache = EmptyDict
    /\ info_cache = EmptyDict
    /\ call = NoCall
    /\ prev = NoPrev
    /\ calls = 0
    /\ db \in RestartRows
    /\ conn = "none"
    /\ in_transaction = FALSE
    /\ opened = NotOpened
    /\ op = NoOp
    /\ lookup = NoLookup
    /\ news_cache = EmptyDict
    /\ news = NoNews
    /\ workers = <<>>
    /\ app = NoApp
    /\ query = NoQuery
    /\ config = NoConfig

NextRestart ==
    \/ DbOpen("ok")
    \/ /\ op.n = 0
       /\ Load(FALSE)
    \/ /\ op.name = "load"
       /\ PriceCacheAtStartup
       /\ populate_price_cache(LoadedEntries(op.loaded))
    \/ /\ calls < MaxNormCalls
       /\ \E tickers \in RunInputs, force \in BOOLEAN : GetPricesBegin(tickers, force)
    \/ \E outcomes \in [Range(call.to_fetch) -> NormOutcomes] : GetPricesComplete(outcomes)

SpecRestart == InitRestart /\ [][NextRestart]_vars

\* get_news_data and get_ticker_info called in any order for the same
\* ticker in both spellings, with a day, or a second less, passing in between
NewsTickers == {"", "aa", "AA"}
NewsSteps == {86399, 86400}

NextNews ==
    \/ /\ news.n < MaxNewsCalls
       /\ \E ticker \in NewsTickers, outcome \in InfoOutcomes, news_outcome \in NewsOutcomes :
             get_news_data(ticker, outcome, news_outcome)
    \/ /\ lookup.n < MaxLookups
       /\ \E ticker \in NewsTickers \ {""}, outcome \in InfoOutcomes :
             get_ticker_info(ticker, outcome)
    \/ /\ ticks < MaxTicks
       /\ \E d \in NewsSteps : Tick(d, calendar)

SpecNews == InitNorm /\ [][NextNews]_vars

\* _load_or_create on every combination of user file and default file;
\* descriptions.json has no default file
ConfigFiles ==
    {[NoConfig EXCEPT !.filename = f, !.user = u, !.default = d, !.writable = w] :
        f \in {"settings.json", "descriptions.json"}, u \in FileStates,
        d \in FileStates, w \in BOOLEAN}

InitConfig ==
    /\ clock = StartClock
    /\ ticks = 0
    /\ mcal = TRUE
    /\ calendar = [c \in Calendars |-> "open"]
    /\ price_cache = EmptyDict
    /\ info_cache = EmptyDict
    /\ call = NoCall
    /\ prev = NoPrev
    /\ calls = 0
    /\ db = EmptyDict
    /\ conn = "none"
    /\ in_transaction = FALSE
    /\ opened = NotOpened
    /\ op = NoOp
    /\ lookup = NoLookup
    /\ news_cache = EmptyDict
    /\ news = NoNews
    /\ workers = <<>>
    /\ app = NoApp
    /\ query = NoQuery
    /\ config \in {c \in ConfigFiles :
                      c.filename = "descriptions.json" => c.default = "missing"}

NextConfig == LoadOrCreate

SpecConfig == InitConfig /\ [][NextConfig]_vars

\* is_cached and get_cached_price between the calls of one run
QueryTickers == {"aa", "AA", "ms", ""}

NextQuery ==
    \/ /\ PriceCacheAtStartup
       /\ \E initial_data \in SeedCaches : populate_price_cache(initial_data)
    \/ /\ calls < MaxNormCalls
       /\ \E tickers \in RunInputs, force \in BOOLEAN : GetPricesBegin(tickers, force)
    \/ \E outcomes \in [Range(call.to_fetch) -> RunOutcomes] : GetPricesComplete(outcomes)
    \/ /\ query.n < MaxQueries
       /\ \E ticker \in QueryTickers : CachedQuery(ticker)

SpecQuery == InitNorm /\ [][NextQuery]_vars

\* what the remote provider does with the batch of worker w in the
\* application runs of the model: it answers every symbol, or it is
\* unreachable and every read raises
BatchOutcomes(w) ==
    {[s \in Range(ToFetch(valid_tickers(workers[w].symbols), workers[w].force, clock)) |-> o] :
        o \in NormOutcomes}

\* The application from launch to exit and through a second launch, on the
\* database file an earlier run left.
AppRows == {EmptyDict, [s \in {"AA"} |-> GoodRow(s, 3600)]}

InitApp ==
    /\ clock = StartClock
    /\ ticks = 0
    /\ mcal = TRUE
    /\ calendar = [c \in Calendars |-> "open"]
    /\ price_cache = EmptyDict
    /\ info_cache = EmptyDict
    /\ call = NoCall
    /\ prev = NoPrev
    /\ calls = 0
    /\ db \in AppRows
    /\ conn = "none"
    /\ in_transaction = FALSE
    /\ opened = NotOpened
    /\ op = NoOp
    /\ lookup = NoLookup
    /\ news_cache = EmptyDict
    /\ news = NoNews
    /\ workers = <<>>
    /\ app = NoApp
    /\ query = NoQuery
    /\ config = NoConfig

NextApp ==
    \/ on_mount
    \/ \E force \in BOOLEAN, force_all \in BOOLEAN : action_refresh(force, force_all)
    \/ \E category \in Categories : ActivateTab(category)
    \/ on_tabs_tab_activated
    \/ \E w \in DOMAIN workers :
          \E outcomes \in BatchOutcomes(w) : FetchPricesRun(w, outcomes)
    \/ on_price_data_updated

\* a first launch: no database file yet
InitFirstLaunch == InitApp /\ db = EmptyDict

SpecApp == InitFirstLaunch /\ [][NextApp]_vars

\* The application with its portfolio tab: start-up, tab changes, the price
\* fetches, the mount of the portfolio view, refreshes of the portfolio and
\* the fetch_portfolio_prices threads.
PriceWorkerRun ==
    \E w \in DOMAIN workers :
        /\ workers[w].category # "portfolio"
        /\ \E outcomes \in BatchOutcomes(w) : FetchPricesRun(w, outcomes)

PortfolioWorkerRun == \E w \in DOMAIN workers : FetchPortfolioPricesRun(w)

NextPortfolio ==
    \/ on_mount
    \/ \E category \in Categories : ActivateTab(category)
    \/ on_tabs_tab_activated
    \/ PriceWorkerRun
    \/ on_price_data_updated
    \/ PortfolioView_on_mount
    \/ \E force \in BOOLEAN : action_refresh_portfolio(force)
    \/ PortfolioWorkerRun

\* Every thread that has started runs to its end and every queued message
\* is handled.
SpecPortfolio ==
    /\ InitFirstLaunch
    /\ [][NextPortfolio]_vars
    /\ WF_vars(PriceWorkerRun)
    /\ WF_vars(PortfolioWorkerRun)
    /\ WF_vars(on_tabs_tab_activated)
    /\ WF_vars(on_price_data_updated)
    /\ WF_vars(PortfolioView_on_mount)

\* the next statement of the thread of worker w
WorkerStep(w) ==
    \/ WorkerEnter(w)
    \/ WorkerGateInfo(w)
    \/ WorkerGatePrice(w)
    \/ \E outcome \in NormOutcomes : WorkerFetch(w, outcome)
    \/ WorkerStamp(w)
    \/ WorkerWrite(w)
    \/ WorkerReturn(w)
    \/ WorkerPost(w)

\* The start-up of the application with its fetch_prices threads
\* interleaved statement by statement: on_mount starts a forced fetch of
\* every symbol, and the activation of the first tab starts a non-forced
\* fetch of the same symbols unless the first thread has cached one by then.
NextWorkers ==
    \/ on_mount
    \/ on_tabs_tab_activated
    \/ \E w \in DOMAIN workers : WorkerStep(w)
    \/ /\ ticks < MaxTicks
       /\ Tick(1, calendar)

SpecWorkers == InitFirstLaunch /\ [][NextWorkers]_vars

\* The application from launch to exit and through a second launch: the
\* fetches of the start-up only.
NextLife ==
    \/ on_mount
    \/ on_tabs_tab_activated
    \/ \E w \in DOMAIN workers :
          \E outcomes \in BatchOutcomes(w) : FetchPricesRun(w, outcomes)
    \/ on_price_data_updated
    \/ on_unmount
    \/ Relaunch

SpecLife == InitApp /\ [][NextLife]_vars

----------------------------------------------------------------------------
(* Properties *)

\* The state is the one the gate of `call` decided in: no time has passed
\* since the call entered and the remote batch has not answered.
AtGate ==
    /\ call.now = clock
    /\ \/ call.phase = "fetching"
       \/ call.phase = "done" /\ call.remote = <<>>

Age(s) == clock - price_cache[s].ts

ExchangeKnown(s) ==
    /\ s \in DOMAIN info_cache
    /\ "exchange" \in DOMAIN info_cache[s]
    /\ info_cache[s].exchange \notin {None, ""}

ResultSymbols == [i \in 1..Len(call.result) |-> call.result[i].symbol]

NumericFields ==
    {"price", "previous_close", "day_low", "day_high", "fifty_two_week_low",
     "fifty_two_week_high"}

\* C1: a non-forced call that repeats, at the same instant, the non-forced
\* call that returned just before it makes no remote call and returns the
\* same list of records.
C1_RepeatIsServedFromCache ==
    prev.repeat =>
        /\ call.phase = "done"
        /\ call.remote = <<>>
        /\ call.result = prev.result

C1_Witness ==
    /\ prev.repeat
    /\ call.phase = "done"
    /\ Len(call.valid) = 2
    /\ Len(call.result) = 2
    /\ \E s \in Range(call.valid) : price_cache[s].ts = call.now

\* C2: a forced call submits every symbol of the normalised list to the
\* remote provider, whatever the caches hold.
C2_ForceFetchesAll ==
    (call.phase # "idle" /\ call.force) =>
        /\ call.to_fetch = call.valid
        /\ call.phase = "done" => call.remote = call.valid

C2_Witness ==
    /\ call.phase = "done"
    /\ call.force
    /\ Len(call.valid) = 2
    /\ call.remote = call.valid
    /\ call.fresh # {}
    /\ \E s \in Range(call.valid) : s \notin call.fresh

\* the upper-cased non-empty entries of a list, each at its first occurrence
FirstOccurrences(tickers) ==
    LET firsts == {i \in 1..Len(tickers) :
                      /\ tickers[i] # ""
                      /\ \A j \in 1..(i - 1) : Upper(tickers[j]) # Upper(tickers[i])}
        nth(k) == CHOOSE i \in firsts : Cardinality({j \in firsts : j <= i}) = k
    IN [k \in 1..Cardinality(firsts) |-> Upper(tickers[nth(k)])]

\* C3: the result holds one record per distinct upper-cased symbol of the
\* input, in the order of first occurrence; empty entries are dropped.
C3_FirstOccurrenceOrder ==
    call.phase = "done" => ResultSymbols = FirstOccurrences(call.tickers)

C3_Witness ==
    /\ call.phase = "done"
    /\ call.tickers = <<"aa", "MS", "aa">>
    /\ ResultSymbols = <<"AA", "MS">>

\* C4: with the symbol's exchange known and reported open by the oracle, a
\* non-forced call serves a cached entry without fetching iff the entry is
\* younger than 300 seconds.
C4_OpenWindowBoundary ==
    \A s \in Range(call.valid) :
        (/\ AtGate /\ ~call.force
         /\ s \in DOMAIN price_cache
         /\ ExchangeKnown(s)
         /\ get_market_status(info_cache[s].exchange).is_open)
        => (s \notin Range(call.to_fetch) <=> Age(s) < 300)

C4_Witness ==
    \E s \in Range(call.valid) :
        /\ AtGate /\ ~call.force
        /\ s \in DOMAIN price_cache /\ ExchangeKnown(s)
        /\ mcal /\ calendar["NYSE"] = "open"
        /\ Age(s) = 299 /\ s \notin Range(call.to_fetch)

\* C5: with the exchange known and reported closed by the oracle, a
\* non-forced call serves a cached entry iff it is younger than 86400 seconds.
C5_ClosedWindowBoundary ==
    \A s \in Range(call.valid) :
        (/\ AtGate /\ ~call.force
         /\ s \in DOMAIN price_cache
         /\ ExchangeKnown(s)
         /\ ~get_market_status(info_cache[s].exchange).is_open)
        => (s \notin Range(call.to_fetch) <=> Age(s) < 86400)

C5_Witness ==
    \E s \in Range(call.valid) :
        /\ AtGate /\ ~call.force
        /\ s \in DOMAIN price_cache /\ ExchangeKnown(s)
        /\ mcal /\ calendar["NYSE"] = "closed"
        /\ Age(s) = 86399 /\ s \notin Range(call.to_fetch)

\* C6: for a symbol whose exchange is unknown the 300-second window applies
\* whatever the state of the calendars.
C6_UnknownExchangeOpenWindow ==
    \A s \in Range(call.valid) :
        (/\ AtGate /\ ~call.force
         /\ s \in DOMAIN price_cache
         /\ ~ExchangeKnown(s))
        => (s \notin Range(call.to_fetch) <=> Age(s) < 300)

C6_Witness ==
    \E s \in Range(call.valid) :
        /\ AtGate /\ ~call.force
        /\ s \in DOMAIN price_cache /\ ~ExchangeKnown(s)
        /\ mcal /\ calendar["NYSE"] = "closed"
        /\ Age(s) = 300 /\ s \in Range(call.to_fetch)

\* C7: when the remote errors for a symbol of the batch, the result still
\* has one record per requested symbol; the failing symbol's record is the
\* "Data Unavailable" placeholder and every other fetched symbol's record is
\* the one its own response gives.
C7_PartialBatch ==
    (call.phase = "done" /\ \E s \in Range(call.remote) : call.outcomes[s].raises) =>
        /\ ResultSymbols = call.valid
        /\ \A i \in 1..Len(call.result) :
              LET s == call.valid[i]
                  r == call.result[i]
              IN /\ (s \in Range(call.remote) /\ call.outcomes[s].raises) =>
                        /\ r.description = "Data Unavailable"
                        /\ \A f \in NumericFields : r[f] = None
                 /\ (s \in Range(call.remote) /\ ~call.outcomes[s].raises) =>
                        r = FetchedRecord(s, call.outcomes[s])
                 /\ s \notin Range(call.remote) => s \in call.fresh

C7_Witness ==
    /\ call.phase = "done"
    /\ Len(call.remote) = 2
    /\ call.outcomes[call.remote[1]] = [raises |-> FALSE, info |-> FullInfo("p1")]
    /\ call.outcomes[call.remote[2]].raises
    /\ call.result[1].price = "p1"
    /\ call.result[2].description = "Data Unavailable"

\* C8: when a call has returned, every symbol of the normalised list has a
\* price-cache entry and exactly one record in the result.
C8_EverySymbolCachedAndReturned ==
    call.phase = "done" =>
        /\ Len(call.result) = Len(call.valid)
        /\ \A s \in Range(call.valid) :
              /\ s \in DOMAIN price_cache
              /\ Cardinality({i \in 1..Len(call.result) : call.result[i].symbol = s}) = 1

C8_Witness ==
    /\ call.phase = "done"
    /\ Len(call.valid) = 2
    /\ \E s \in Range(call.remote) :
          /\ ~call.outcomes[s].raises
          /\ call.outcomes[s].info = NoCurrencyInfo
          /\ price_cache[s].rec.description = "Invalid Ticker"
    /\ \E s \in Range(call.valid) : s \notin Range(call.remote)

\* C9: a call whose entries are all empty (or that has none) returns the
\* empty list at once, makes no remote call and leaves both caches unchanged.
C9_EmptyInputNoEffect ==
    [][(calls' = calls + 1 /\ Range(call'.tickers) \subseteq {""}) =>
          /\ call'.phase = "done"
          /\ call'.result = <<>>
          /\ call'.remote = <<>>
          /\ price_cache' = price_cache
          /\ info_cache' = info_cache]_vars

C9_Witness ==
    /\ call.phase = "done"
    /\ call.force
    /\ call.tickers = <<"", "">>
    /\ call.result = <<>>
    /\ call.remote = <<>>
    /\ price_cache # EmptyDict

\* C10: opening the store deletes exactly the rows older than 7 days.
C10_PruneExactly ==
    conn = "open" =>
        /\ DOMAIN db = {t \in DOMAIN opened.rows :
                            opened.rows[t].timestamp >= opened.at - 7 * 86400}
        /\ \A t \in DOMAIN db : db[t] = opened.rows[t]

C10_Witness ==
    /\ conn = "open"
    /\ \E s \in DOMAIN opened.rows, t \in DOMAIN opened.rows :
          /\ opened.rows[s].timestamp = opened.at - 8 * 86400
          /\ s \notin DOMAIN db
          /\ opened.rows[t].timestamp = opened.at - 6 * 86400
          /\ t \in DOMAIN db

----------------------------------------------------------------------------
(* Properties of the persistent store *)

\* the last operation ran on the open connection and the storage did not fail
OnOpenStore(name) == op.name = name /\ op.conn = "open" /\ op.fault = 0

\* the rows the load selects: not older than 24 hours at the load
InLoadWindow(rows, at) == {t \in DOMAIN rows : rows[t].timestamp >= at - 24 * 3600}

\* the row that stores a cache entry
RowOf(e) == [data |-> json_dumps(e.data), timestamp |-> e.timestamp_dt.seconds]

\* C11: a load returns exactly the readable rows whose timestamp is not
\* before now - 24 hours, each under its ticker with its timestamp, and leaves
\* the table as it was; a row of now - 25 hours is not loaded and not deleted.
C11_LoadWindow ==
    (OnOpenStore("load") /\ ~op.raised) =>
        /\ DOMAIN op.loaded =
              {t \in InLoadWindow(op.rows, op.at) : RowRaises(op.rows[t]) = "none"}
        /\ \A t \in DOMAIN op.loaded :
              op.loaded[t].ts = Datetime(op.rows[t].timestamp)
        /\ db = op.rows

C11_Witness ==
    /\ OnOpenStore("load")
    /\ \E s \in DOMAIN db, t \in DOMAIN db :
          /\ db[s].timestamp = op.at - 25 * 3600
          /\ s \notin DOMAIN op.loaded
          /\ db[t].timestamp = op.at - 24 * 3600
          /\ t \in DOMAIN op.loaded

\* C12: when a symbol is saved again, with the storage working, its row is the
\* one of the later save: one row per symbol, with the later timestamp.
C12_UpsertKeepsLatest ==
    OnOpenStore("save") =>
        \A i \in 1..Len(op.batch) :
            LET e == op.batch[i]
            IN (Serializable(e) /\ e.ticker \in op.prior) =>
                  /\ e.ticker \in DOMAIN db
                  /\ db[e.ticker] = RowOf(e)

C12_Witness ==
    /\ OnOpenStore("save")
    /\ \E i \in 1..Len(op.batch) :
          LET e == op.batch[i]
          IN /\ e.ticker \in op.prior
             /\ e.ticker \in DOMAIN op.rows
             /\ op.rows[e.ticker].timestamp = op.at - 60
             /\ e.timestamp_dt = Datetime(op.at)
             /\ db[e.ticker].timestamp = op.at

\* C13: an entry that was saved, on the open store and with the storage
\* working, and is then loaded within 24 hours of its timestamp, comes back
\* under its symbol with an equal payload and the same timestamp.
C13_RoundTrip ==
    (OnOpenStore("load") /\ ~op.raised) =>
        \A i \in 1..Len(op.saved) :
            LET e == op.saved[i]
            IN e.timestamp_dt.seconds >= op.at - 24 * 3600 =>
                  /\ e.ticker \in DOMAIN op.loaded
                  /\ op.loaded[e.ticker] = [ts |-> e.timestamp_dt, rec |-> e.data]

\* C14: a save either leaves the table as it was or adds every serialisable
\* entry of the batch; when the storage write fails the table is as it was,
\* when the commit is reached every serialisable entry is in the table.
C14_AllOrNothing ==
    op.name = "save" =>
        /\ (op.fault > 0 \/ ~op.committed) => db = op.rows
        /\ op.committed =>
              /\ \A i \in 1..Len(op.batch) :
                    Serializable(op.batch[i]) =>
                        /\ op.batch[i].ticker \in DOMAIN db
                        /\ db[op.batch[i].ticker] = RowOf(op.batch[i])
              /\ \A t \in DOMAIN op.rows :
                    (\A i \in 1..Len(op.batch) : op.batch[i].ticker # t) =>
                        (t \in DOMAIN db /\ db[t] = op.rows[t])

C14_Witness ==
    /\ op.name = "save" /\ op.conn = "open" /\ ~op.intxn
    /\ Len(op.batch) = 2 /\ op.fault = 2
    /\ \A i \in 1..2 : Serializable(op.batch[i]) /\ op.batch[i].ticker \notin DOMAIN op.rows
    /\ db = op.rows

\* C15: in a save on the open store, with the storage working, an entry that
\* cannot be serialised is skipped, every other entry of the batch is in the
\* table afterwards, and the call does not raise.
C15_SkipUnserializable ==
    (OnOpenStore("save") /\ \E i \in 1..Len(op.batch) : ~Serializable(op.batch[i])) =>
        /\ ~op.raised
        /\ \A i \in 1..Len(op.batch) :
              Serializable(op.batch[i]) =>
                  /\ op.batch[i].ticker \in DOMAIN db
                  /\ db[op.batch[i].ticker] = RowOf(op.batch[i])

\* C16: when the store cannot be opened the constructor does not raise, and
\* every later operation does nothing: a load returns the empty mapping, no
\* operation changes the table, none raises.
C16_OpenFailureDegrades ==
    (opened.done /\ ~opened.ok) =>
        /\ ~opened.raised
        /\ conn = "none"
        /\ db = opened.rows
        /\ ~op.raised
        /\ op.name = "load" => op.loaded = EmptyDict

\* C17: close never raises and leaves the connection closed (or never opened);
\* a close of a store that is closed or was never opened changes nothing.
C17_CloseIdempotent ==
    op.name = "close" =>
        /\ ~op.raised
        /\ conn = IF op.conn = "none" THEN "none" ELSE "closed"
        /\ db = op.rows
        /\ ~in_transaction
        /\ op.conn # "open" => (conn = op.conn /\ in_transaction = op.intxn)

C17_Witness ==
    /\ op.name = "close"
    /\ op.n >= 2
    /\ op.conn = "closed"
    /\ conn = "closed"
    /\ db # EmptyDict

\* C18: a load on the open store, with the storage working, does not raise
\* when rows of the load window fail to decode: it returns every other row of
\* the window and drops those.
C18_CorruptRowDropped ==
    (/\ OnOpenStore("load")
     /\ \E t \in InLoadWindow(op.rows, op.at) : RowRaises(op.rows[t]) # "none") =>
        /\ ~op.raised
        /\ DOMAIN op.loaded =
              {t \in InLoadWindow(op.rows, op.at) : RowRaises(op.rows[t]) = "none"}

----------------------------------------------------------------------------
(* Properties of get_ticker_info *)

\* C19: a call for a ticker that has an entry in the info cache, the empty
\* one included, reads nothing from the remote provider and leaves the info
\* cache as it was.
C19_HitIsLocal ==
    [][(lookup'.n = lookup.n + 1 /\ lookup'.ticker \in DOMAIN info_cache) =>
          /\ ~lookup'.remote
          /\ ~lookup'.raised
          /\ info_cache' = info_cache]_vars

C19_Witness ==
    /\ lookup.n > 0
    /\ lookup.hit
    /\ ~lookup.remote
    /\ info_cache[lookup.ticker] = EmptyDict

\* C20: a call for a ticker without an entry reads the remote provider and
\* does not raise; a response with a currency field is stored as static info
\* and returned; an error or a response without currency stores the empty
\* entry and returns None.
C20_MissLooksUp ==
    (lookup.n > 0 /\ ~lookup.hit) =>
        LET o == lookup.outcome
            failed == o.raises \/ "currency" \notin DOMAIN o.info
        IN /\ lookup.remote
           /\ ~lookup.raised
           /\ lookup.ticker \in DOMAIN info_cache
           /\ failed => (info_cache[lookup.ticker] = EmptyDict /\ lookup.is_none)
           /\ ~failed =>
                 /\ ~lookup.is_none
                 /\ lookup.value = info_cache[lookup.ticker]
                 /\ lookup.value =
                       [exchange |-> Get(o.info, "exchange"),
                        shortName |-> Get(o.info, "shortName"),
                        longName |-> Get(o.info, "longName")]

C20_Witness ==
    /\ lookup.n = 2
    /\ ~lookup.hit
    /\ lookup.outcome.raises
    /\ lookup.is_none
    /\ info_cache[lookup.ticker] = EmptyDict
    /\ \E t \in DOMAIN info_cache : "exchange" \in DOMAIN info_cache[t]

----------------------------------------------------------------------------
(* Properties of one run of the provider *)

IsSentinel(cache, s) == s \in DOMAIN cache /\ cache[s] = EmptyDict

\* the step is the return of a get_market_price_data call whose remote batch
\* held s and answered it with a quote that has a currency
FetchedWithCurrency(s) ==
    /\ call.phase = "fetching"
    /\ call'.phase = "done"
    /\ s \in Range(call.to_fetch)
    /\ s \in DOMAIN call'.outcomes
    /\ ~call'.outcomes[s].raises
    /\ Truthy(Get(call'.outcomes[s].info, "currency"))

\* C21 as stated: once the static info of a symbol is the empty failed
\* sentinel, every later step (get_ticker_info or get_market_price_data)
\* leaves it the empty sentinel.
C21_SentinelPermanent ==
    [][\A s \in Symbols :
          IsSentinel(info_cache, s) => IsSentinel(info_cache', s)]_vars

\* C21, amended: the empty sentinel of a symbol is left in place by every
\* get_ticker_info call and by every get_market_price_data call, except a
\* get_market_price_data call whose remote batch holds the symbol and gets a
\* quote with a currency for it: that call replaces the sentinel by the
\* static info of the quote.
C21_SentinelUntilFetched ==
    [][\A s \in Symbols :
          IsSentinel(info_cache, s) =>
              /\ s \in DOMAIN info_cache'
              /\ IF FetchedWithCurrency(s)
                 THEN info_cache'[s] = StaticInfo(call'.outcomes[s].info)
                 ELSE info_cache'[s] = EmptyDict]_vars

\* A sentinel that a get_ticker_info call has been served from and that a
\* later remote batch holding the symbol has failed on again.
C21_Witness ==
    /\ IsSentinel(info_cache, "AA")
    /\ lookup.n >= 1
    /\ lookup.ticker = "AA"
    /\ lookup.hit
    /\ ~lookup.remote
    /\ call.phase = "done"
    /\ "AA" \in Range(call.remote)
    /\ call.outcomes["AA"].raises

----------------------------------------------------------------------------
(* Properties of the application *)

\* the row save_cache_to_db stores for a cache entry
StoredRow(entry) == [data |-> json_dumps(entry.rec), timestamp |-> entry.ts]

\* no fetch_prices worker of this launch has returned yet
BeforeFirstFetch == \A w \in DOMAIN workers : workers[w].state # "done"

\* C22: every entry of the in-memory price cache at shutdown is in the
\* database afterwards, and after the next launch every such entry younger
\* than 24 hours is in the in-memory cache before the first fetch returns.
C22_SeededAndDrained ==
    /\ (app.phase = "stopped" \/ app.runs > 1) =>
          \A s \in DOMAIN app.at_stop :
             s \in DOMAIN db /\ db[s] = StoredRow(app.at_stop[s])
    /\ (app.runs > 1 /\ app.phase = "running" /\ BeforeFirstFetch) =>
          \A s \in DOMAIN app.at_stop :
             clock - app.at_stop[s].ts < CACHE_LOAD_DURATION_SECONDS =>
                s \in DOMAIN price_cache /\ price_cache[s] = app.at_stop[s]

----------------------------------------------------------------------------
(* Properties: failures *)

\* C23: no load, save or close on the DbManager, whatever the state of its
\* connection (never opened, open, closed), and no get_ticker_info call ends
\* in an exception.
C23_NoExceptionEscapes ==
    /\ op.name \in {"load", "save", "close"} => ~op.raised
    /\ lookup.n > 0 => ~lookup.raised

----------------------------------------------------------------------------
(* Properties of is_cached and get_cached_price *)

\* C24: a pair of calls is_cached(t), get_cached_price(t) makes no remote
\* call and writes neither cache; is_cached(t) is TRUE exactly when the
\* price cache has an entry under the upper-cased t, and exactly when
\* get_cached_price(t) is not None, which is then the record of that entry.
C24_QueriesAreMemoryOnly ==
    [][query' # query =>
         LET s == Upper(query'.ticker)
         IN /\ price_cache' = price_cache
            /\ info_cache' = info_cache
            /\ call' = call /\ calls' = calls /\ lookup' = lookup
            /\ query'.is_cached = (s \in DOMAIN price_cache)
            /\ query'.is_cached = ~query'.price.is_none
            /\ query'.is_cached => query'.price.value = price_cache[s].rec]_vars

\* a lower-case spelling answered from the entry of the upper-case symbol
\* while a fetch is in progress, and a symbol that has no entry
C24_Witness ==
    /\ query.n = 2
    /\ query.ticker = "aa"
    /\ query.is_cached
    /\ query.price.value = price_cache["AA"].rec
    /\ call.phase = "fetching"
    /\ "MS" \notin DOMAIN price_cache

----------------------------------------------------------------------------
(* Properties of concurrent get_market_price_data calls *)

AllDone == workers # <<>> /\ \A w \in DOMAIN workers : workers[w].state = "done"

\* C25: with get_market_price_data calls for the same symbols running in
\* two threads, under every interleaving of their statements no call ever
\* blocks (its next statement can always run), a call that has returned
\* has built one record per symbol of its normalised list, in order, and
\* every price-cache entry is exactly one (timestamp, record) pair that one
\* of the calls wrote, never the timestamp of one with the record of another.
C25_ConcurrentCalls ==
    /\ \A w \in DOMAIN workers : workers[w].state = "running" => ENABLED WorkerStep(w)
    /\ \A w \in DOMAIN workers :
          workers[w].state = "done" =>
             /\ Len(workers[w].result) = Len(workers[w].valid)
             /\ \A j \in 1..Len(workers[w].valid) :
                   workers[w].result[j].symbol = workers[w].valid[j]
    /\ \A s \in DOMAIN price_cache :
          \E w \in DOMAIN workers :
             s \in DOMAIN workers[w].written /\ price_cache[s] = workers[w].written[s]

\* Two calls have run to their end, both wrote both symbols, at different
\* instants; AA keeps the pair of the first call and MS that of the second.
C25_Witness ==
    /\ Len(workers) = 2
    /\ AllDone
    /\ DOMAIN workers[1].written = {"AA", "MS"}
    /\ DOMAIN workers[2].written = {"AA", "MS"}
    /\ workers[1].now_ts # workers[2].now_ts
    /\ workers[1].written["AA"].rec # workers[2].written["AA"].rec
    /\ price_cache["AA"] = workers[1].written["AA"]
    /\ price_cache["MS"] = workers[2].written["MS"]

\* C27: whenever get_market_status cannot compute the status of a calendar
\* (pandas_market_calendars is not installed, or the calendar lookup or
\* the schedule raises) it answers is_open = TRUE.
C27_OracleAssumesOpen ==
    \A name \in Calendars \cup {"GDAX"} :
        LET looked_up == IF name = "GDAX" THEN "CME_Crypto" ELSE name
            cannot_compute ==
                \/ ~mcal
                \/ looked_up \notin DOMAIN calendar
                \/ calendar[looked_up] = "error"
        IN cannot_compute => get_market_status(name).is_open

----------------------------------------------------------------------------
(* Properties of the configuration loader *)

\* the file yields no configuration: it is absent, empty, not JSON, not
\* text, or cannot be opened
CannotBeRead(file) ==
    file \in {"missing", "empty", "corrupt", "undecodable", "unreadable"}

\* C28: when the file can be read neither from the user directory nor from
\* the defaults, _load_or_create returns the empty dict and does not raise.
C28_UnreadableGivesEmpty ==
    (config.n > 0 /\ CannotBeRead(config.before) /\ CannotBeRead(config.default)) =>
        /\ ~config.result.raised
        /\ config.result.value = EmptyConfig

----------------------------------------------------------------------------
(* Properties of the gate: what is submitted and what is left alone *)

\* the freshness window of a cached symbol, from the caches and the oracle
Window(s) ==
    IF ExchangeKnown(s) /\ ~get_market_status(info_cache[s].exchange).is_open
    THEN CACHE_CLOSED_MARKET_SECONDS
    ELSE CACHE_OPEN_MARKET_SECONDS

Stale(s) == s \in DOMAIN price_cache /\ Age(s) >= Window(s)

\* C29: a non-forced call submits a symbol of its list iff the symbol has no
\* price-cache entry or its entry is stale; and the return of the call
\* leaves every entry whose symbol it did not submit (fresh symbols of the
\* list, symbols outside the list) with the timestamp and record it had.
C29_SubmittedIffAbsentOrStale ==
    /\ [](\A s \in Range(call.valid) :
            (AtGate /\ ~call.force) =>
                (s \in Range(call.to_fetch) <=> (s \notin DOMAIN price_cache \/ Stale(s))))
    /\ [][\A s \in DOMAIN price_cache :
            (~call'.force /\ s \notin Range(call'.remote)) =>
                (s \in DOMAIN price_cache' /\ price_cache'[s] = price_cache[s])]_vars

\* A non-forced call for AA and MS with the market closed: AA, 86399 seconds
\* old, was not submitted and kept its entry; MS had no entry and was fetched.
C29_Witness ==
    /\ call.phase = "done"
    /\ ~call.force
    /\ call.valid = <<"AA", "MS">>
    /\ call.remote = <<"MS">>
    /\ calendar["NYSE"] = "closed"
    /\ price_cache["AA"] = EntryAged("AA", 86399)
    /\ price_cache["MS"].ts = call.now_ts

----------------------------------------------------------------------------
(* Properties of the write loop and of failed fetches *)

\* the worker whose write loop is at the item for symbol s
WritesNext(w, s) ==
    /\ Running(w)
    /\ workers[w].pc = "write"
    /\ workers[w].data[workers[w].i].symbol = s

\* C31: every price-cache entry a call writes carries the one timestamp the
\* call read after its fetch returned, which is not earlier than the instant
\* at which the call evaluated freshness; the timestamp does not move while
\* the write loop runs, whatever time passes between two writes.
C31_OneTimestampPerCall ==
    [][/\ \A s \in DOMAIN price_cache' :
            (s \notin DOMAIN price_cache \/ price_cache'[s] # price_cache[s]) =>
                \E w \in DOMAIN workers :
                    /\ WritesNext(w, s)
                    /\ price_cache'[s].ts = workers[w].now_ts
                    /\ workers[w].now_ts >= workers[w].now
       /\ \A w \in DOMAIN workers :
            workers[w].pc = "write" => workers'[w].now_ts = workers[w].now_ts]_vars

\* A call is between its two writes, a second has passed since it read
\* now_ts, and the entry already written carries now_ts.
C31_Witness ==
    \E w \in DOMAIN workers :
        /\ workers[w].pc = "write"
        /\ workers[w].i = 2
        /\ clock > workers[w].now_ts
        /\ workers[w].data[1].symbol \in DOMAIN price_cache
        /\ price_cache[workers[w].data[1].symbol].ts = workers[w].now_ts

\* the record a failed fetch leaves for symbol s
Unavailable(s) == Placeholder(s, "Data Unavailable")

HoldsFailure(s) == s \in DOMAIN price_cache /\ price_cache[s].rec = Unavailable(s)

\* C32: the record of a failed fetch replaces the symbol's entry, stamped
\* with the time at which the batch returned.  While that record is
\* younger than the freshness window (300 seconds: the failure has erased
\* the exchange) a non-forced call does not submit the symbol and returns
\* the record; once the window has elapsed a non-forced call submits it
\* again, and a forced call submits it at any age.
C32_FailureFrozenForWindow ==
    /\ [][(call.phase = "fetching" /\ call'.phase = "done") =>
            \A s \in Range(call'.remote) :
                call'.outcomes[s].raises =>
                    price_cache'[s] = [ts |-> clock', rec |-> Unavailable(s)]]_vars
    /\ [](\A s \in Range(call.valid) :
            (AtGate /\ HoldsFailure(s)) =>
                /\ ~call.force =>
                     (s \in Range(call.to_fetch) <=> Age(s) >= CACHE_OPEN_MARKET_SECONDS)
                /\ call.force => s \in Range(call.to_fetch)
                /\ call.phase = "done" =>
                     \E i \in 1..Len(call.result) : call.result[i] = Unavailable(s))

\* The fetch of AA, whose exchange was known and closed, failed 299 seconds
\* ago; the non-forced call that follows makes no remote call and returns
\* the record of the failure.
C32_Witness ==
    /\ call.phase = "done"
    /\ ~call.force
    /\ call.valid = <<"AA">>
    /\ call.remote = <<>>
    /\ calendar["NYSE"] = "closed"
    /\ HoldsFailure("AA")
    /\ Age("AA") = 299
    /\ call.result = <<Unavailable("AA")>>
    /\ calls = 2

\* the remote answered for s with a response that has no currency
AnsweredWithoutCurrency(s) ==
    /\ s \in Range(call.remote)
    /\ ~call.outcomes[s].raises
    /\ "currency" \notin DOMAIN call.outcomes[s].info

\* C33: when the call has returned, a symbol whose response had no currency
\* has a price-cache entry stamped like the rest of the batch whose record
\* is described "Invalid Ticker" with every numeric field None, its static
\* info is the empty sentinel, and the record is returned; the record
\* differs from the one a remote error leaves.
C33_InvalidTickerRecord ==
    call.phase = "done" =>
        \A s \in Range(call.remote) :
            AnsweredWithoutCurrency(s) =>
                /\ s \in DOMAIN price_cache
                /\ price_cache[s].ts = call.now_ts
                /\ price_cache[s].rec.symbol = s
                /\ price_cache[s].rec.description = "Invalid Ticker"
                /\ \A f \in NumericFields : price_cache[s].rec[f] = None
                /\ price_cache[s].rec # Unavailable(s)
                /\ IsSentinel(info_cache, s)
                /\ \E i \in 1..Len(call.result) : call.result[i] = price_cache[s].rec

\* One batch in which AA is answered without currency and MS raises: the
\* two placeholders are cached side by side.
C33_Witness ==
    /\ call.phase = "done"
    /\ call.remote = <<"AA", "MS">>
    /\ AnsweredWithoutCurrency("AA")
    /\ call.outcomes["MS"].raises
    /\ price_cache["AA"].rec.description = "Invalid Ticker"
    /\ price_cache["MS"].rec.description = "Data Unavailable"
    /\ price_cache["AA"].ts = price_cache["MS"].ts
    /\ IsSentinel(info_cache, "AA")

----------------------------------------------------------------------------
(* Properties of the seeding functions and of the static-info cache *)

\* after is before with the keys of initial_data set to its values
Merged(before, initial_data, after) ==
    /\ DOMAIN after = DOMAIN before \cup DOMAIN initial_data
    /\ \A k \in DOMAIN initial_data : after[k] = initial_data[k]
    /\ \A k \in DOMAIN before \ DOMAIN initial_data : after[k] = before[k]

\* C34: a call of populate_price_cache or populate_info_cache sets every key
\* of its argument to the argument's value and leaves every other key of
\* the cache with the value it had.  (The steps that change a cache while
\* no call of get_market_price_data moves are the populate steps.)
C34_SeedMerges ==
    [][call' = call =>
          /\ price_cache' # price_cache =>
                \E initial_data \in SeedPrices :
                    Merged(price_cache, initial_data, price_cache')
          /\ info_cache' # info_cache =>
                \E initial_data \in SeedStatics :
                    Merged(info_cache, initial_data, info_cache')]_vars

\* A forced call fetched AA and MS; the seeds that followed replaced the
\* entries of AA and kept those of MS.
C34_Witness ==
    /\ call.phase = "done"
    /\ call.force
    /\ call.remote = <<"AA", "MS">>
    /\ ~call.outcomes["AA"].raises
    /\ ~call.outcomes["MS"].raises
    /\ price_cache["AA"] = EntryAged("AA", 60)
    /\ price_cache["MS"].ts = call.now_ts
    /\ IsSentinel(info_cache, "AA")
    /\ ExchangeKnown("MS")

\* C35: a symbol whose static info records a non-empty exchange still
\* records a non-empty exchange after every step, get_market_price_data
\* calls whose fetch of the symbol fails and get_ticker_info calls included.
C35_ExchangeNeverLost ==
    [][\A s \in Symbols : ExchangeKnown(s) => ExchangeKnown(s)']_vars

----------------------------------------------------------------------------
(* Properties of overlapping calls *)

\* C36 as stated: no step replaces a price-cache entry by one with an older
\* timestamp.
C36_TimestampNeverDecreases ==
    [][\A s \in DOMAIN price_cache :
          s \in DOMAIN price_cache' /\ price_cache'[s].ts >= price_cache[s].ts]_vars

\* C36, amended: the last write wins.  A step lowers the timestamp of a key
\* only when it is the write of a call w that read now_ts before another
\* call v read its own, v having written the key in between: the new
\* timestamp is the now_ts of w, the entry replaced is the one v wrote.
\* Every other step leaves the timestamp or raises it.
C36_LastWriteWins ==
    [][\A s \in DOMAIN price_cache :
          /\ s \in DOMAIN price_cache'
          /\ price_cache'[s].ts < price_cache[s].ts =>
                \E w, v \in DOMAIN workers :
                    /\ w # v
                    /\ WritesNext(w, s)
                    /\ price_cache'[s].ts = workers[w].now_ts
                    /\ s \in DOMAIN workers[v].written
                    /\ workers[v].written[s] = price_cache[s]
                    /\ workers[v].now_ts > workers[w].now_ts]_vars

\* The cache holds for AA the entry of one call although another call has
\* written AA with a later timestamp: the older write came last.
C36_Witness ==
    \E w, v \in DOMAIN workers :
        /\ "AA" \in DOMAIN workers[w].written
        /\ "AA" \in DOMAIN workers[v].written
        /\ "AA" \in DOMAIN price_cache
        /\ price_cache["AA"] = workers[w].written["AA"]
        /\ workers[v].written["AA"].ts > price_cache["AA"].ts

----------------------------------------------------------------------------
(* Properties of a restart *)

\* the price cache holds for s what the start-up loaded from the database
LoadedEntry(s) ==
    /\ op.name = "load"
    /\ s \in DOMAIN op.loaded
    /\ s \in DOMAIN price_cache
    /\ price_cache[s] = LoadedEntries(op.loaded)[s]

\* C37: no row of the database holds static info and nothing seeds the
\* static-info cache, so it is empty until the first fetch of the run
\* returns; the first call after the start, if not forced, submits every
\* symbol of its list whose loaded entry is 300 seconds old or more,
\* whether the market is open or closed.
C37_RestartForgetsExchange ==
    /\ \A t \in DOMAIN db : "exchange" \notin DOMAIN db[t].data.members
    /\ (calls = 0 \/ (calls = 1 /\ AtGate)) => info_cache = EmptyDict
    /\ (calls = 1 /\ AtGate /\ ~call.force) =>
          \A s \in Range(call.valid) :
              (LoadedEntry(s) /\ Age(s) >= CACHE_OPEN_MARKET_SECONDS) =>
                  s \in Range(call.to_fetch)

\* The market is closed and the entry loaded for AA is an hour old: the
\* first non-forced call submits AA, and not MS, loaded 299 seconds old.
C37_Witness ==
    /\ calls = 1
    /\ AtGate
    /\ ~call.force
    /\ calendar["NYSE"] = "closed"
    /\ call.valid = <<"AA", "MS">>
    /\ LoadedEntry("AA")
    /\ LoadedEntry("MS")
    /\ Age("AA") = 3600
    /\ call.to_fetch = <<"AA">>

----------------------------------------------------------------------------
(* Properties of the portfolio view *)

\* a PortfolioDataUpdated message for the portfolio has been posted
PortfolioPosted(portfolio_name) ==
    \E w \in DOMAIN workers :
        /\ workers[w].category = "portfolio"
        /\ workers[w].portfolio_name = portfolio_name
        /\ workers[w].posted

\* C38: once the prices of a portfolio with a ticker have been asked for,
\* by the load of the portfolio or by a refresh, a fetch_portfolio_prices
\* worker eventually posts a PortfolioDataUpdated message with its name.
C38_PortfolioEventuallyPosted ==
    \A portfolio_name \in DOMAIN Portfolios :
        (app.pview.requested = portfolio_name) ~> PortfolioPosted(portfolio_name)


----------------------------------------------------------------------------
(* The news cache *)

NewsCallStep == news'.n = news.n + 1

\* the call entered with a list for the upper-cased ticker that was cached
\* less than 86400 seconds before
CachedInTime(ticker) ==
    /\ ticker # ""
    /\ Upper(ticker) \in DOMAIN news_cache
    /\ clock - news_cache[Upper(ticker)].ts < 86400

ServedFromNewsCache ==
    CachedInTime(news'.ticker) =>
        /\ ~news'.is_none
        /\ news'.value = news_cache[Upper(news'.ticker)].data
        /\ ~news'.info_remote /\ ~news'.news_remote
        /\ lookup' = lookup

NothingStoredOnFailure ==
    news'.path \in {"invalid", "empty"} => news_cache' = news_cache

====
